---- MODULE Spec2Model ----
(***************************************************************************)
(* A model of citation_station: the Bibliography collection of lib.rs,     *)
(* the PublishDate constructors, ordering and renderings of api/date.rs,   *)
(* the names and author lists of api/author.rs, the version descriptors of *)
(* api/media/version.rs, the Book, OnlineManual and OnlineVideo renderings  *)
(* of api/media and the dispatch of api/citation.rs.                       *)
(*                                                                         *)
(* A Rust String is a finite sequence of character codes; Option<T> and    *)
(* Result<T, E> are tagged records.                                        *)
(***************************************************************************)
EXTENDS Integers, Sequences, FiniteSets, TLC

VARIABLES
    citations,  \* Bibliography.citations : Vec<Citation>
    op,         \* the Bibliography method that ran last
    arg,        \* its argument
    result,     \* its return value
    prev,       \* Bibliography.citations before that call
    da, db, dc, \* three PublishDate values handed to Ord::cmp
    ord,        \* the orderings cmp returned for them
    dateIn,     \* inputs of a PublishDate constructor
    dateOut,    \* what the constructor returned
    nameIn,     \* inputs of a PersonName constructor
    nameOut,    \* what the constructor returned
    nameStr,    \* the rendering of the constructed PersonName
    dateStr,    \* the rendering of the constructed PublishDate
    authorIn,   \* an author: a list of persons or an organization
    authorOut,  \* its rendering
    verIn,      \* a GenericMediaVersion
    verOut,     \* its rendering
    bookIn,     \* a Book
    bookOut,    \* its formatted citation
    manIn,      \* an OnlineManual
    manOut,     \* its formatted citation
    vidIn,      \* an OnlineVideo
    vidOut,     \* its formatted citation
    confIn,     \* a Citation of a conference kind
    confOut     \* its formatted citation

bibVars  == <<citations, op, arg, result, prev>>
ordVars  == <<da, db, dc, ord>>
ctorVars == <<dateIn, dateOut, dateStr>>
nameVars == <<nameIn, nameOut, nameStr>>
authorVars == <<authorIn, authorOut>>
verVars == <<verIn, verOut>>
bookVars == <<bookIn, bookOut>>
manVars == <<manIn, manOut>>
vidVars == <<vidIn, vidOut>>
confVars == <<confIn, confOut>>
otherMediaVars == <<manIn, manOut, vidIn, vidOut, confIn, confOut>>
vars == <<citations, op, arg, result, prev, da, db, dc, ord,
          dateIn, dateOut, nameIn, nameOut, nameStr, dateStr,
          authorIn, authorOut, verIn, verOut, bookIn, bookOut,
          manIn, manOut, vidIn, vidOut, confIn, confOut>>

----------------------------------------------------------------------------
(* Bounds of the model *)

MaxCitations == 3   \* add_citation is tried on bibliographies shorter than this

----------------------------------------------------------------------------
(* Option, Result, Ordering *)

None == [tag |-> "None"]

Some(v) == [tag |-> "Some", val |-> v]

Ok(v) == [tag |-> "Ok", val |-> v]

Err(e) == [tag |-> "Err", err |-> e]

Unit == <<>>

\* Option::unwrap_or
UnwrapOr(o, d) == IF o.tag = "Some" THEN o.val ELSE d

\* Ord::cmp on integers
IntCmp(x, y) == IF x < y THEN "Less" ELSE IF x > y THEN "Greater" ELSE "Equal"

\* Ordering::then
Then(o1, o2) == IF o1 = "Equal" THEN o2 ELSE o1

\* Ordering::reverse
Reverse(o) == IF o = "Less" THEN "Greater" ELSE IF o = "Greater" THEN "Less" ELSE "Equal"

\* <[T]>::first
First(s) == IF Len(s) = 0 THEN None ELSE Some(s[1])

\* Ord::cmp on String: lexicographic on the character codes
RECURSIVE StrCmp(_, _)
StrCmp(s, t) ==
    IF Len(s) = 0 /\ Len(t) = 0 THEN "Equal"
    ELSE IF Len(s) = 0 THEN "Less"
    ELSE IF Len(t) = 0 THEN "Greater"
    ELSE Then(IntCmp(Head(s), Head(t)), StrCmp(Tail(s), Tail(t)))

----------------------------------------------------------------------------
(* lib.rs: Citation *)

EmptyStr == <<>>

\* "", "a", "b", "c"
Ids == {EmptyStr, <<97>>, <<98>>, <<99>>}

\* "", "T"
Titles == {EmptyStr, <<84>>}

\* [], ["A C"], ["B", "A"]: a first author of two words, and of one
AuthorLists == {<<>>, << <<65, 32, 67>> >>, << <<66>>, <<65>> >>}

Years == {None, Some(0), Some(2023)}

\* Citation::new followed by the assignment of the public field year
Citation == [id : Ids, title : Titles, authors : AuthorLists, year : Years]

\* Citation::validate
validate(c) ==
    IF Len(c.id) = 0 THEN Err([kind |-> "MissingField", field |-> "id"])
    ELSE IF Len(c.title) = 0 THEN Err([kind |-> "MissingField", field |-> "title"])
    ELSE IF Len(c.authors) = 0 THEN Err([kind |-> "MissingField", field |-> "authors"])
    ELSE Ok(Unit)

----------------------------------------------------------------------------
(* lib.rs: Bibliography *)

\* the duplicate check of add_citation: citations.iter().any(|c| c.id == id)
NoDupCheck(cs, id) == FALSE

HasId(cs, id) == \E i \in 1..Len(cs) : cs[i].id = id

\* the value add_citation returns
AddResult_duplicates_first(cs, c) ==
    IF HasId(cs, c.id) THEN Err([kind |-> "InvalidFormat", exists |-> c.id])
    ELSE IF validate(c).tag = "Err" THEN validate(c)
    ELSE Ok(Unit)

AddResult(cs, c) ==
    IF validate(c).tag = "Err" THEN validate(c)
    ELSE IF HasId(cs, c.id) THEN Err([kind |-> "InvalidFormat", exists |-> c.id])
    ELSE Ok(Unit)

\* the closure of sort_by_author
AuthorCmp(a, b) ==
    StrCmp(UnwrapOr(First(a.authors), EmptyStr), UnwrapOr(First(b.authors), EmptyStr))

\* the closure of sort_by_year
YearCmpAscending(a, b) == IntCmp(UnwrapOr(a.year, 0), UnwrapOr(b.year, 0))

YearCmp(a, b) == IntCmp(UnwrapOr(b.year, 0), UnwrapOr(a.year, 0))

\* the closure a sort_by call is given
Closure(by, a, b) == IF by = "author" THEN AuthorCmp(a, b) ELSE YearCmp(a, b)

\* the place slice::sort_by gives x among the sorted s: after the last element
\* that does not compare Greater than it (the sort is stable)
InsertBy(s, x, by) ==
    LET notGreater == {i \in 1..Len(s) : Closure(by, s[i], x) # "Greater"}
        p == IF notGreater = {} THEN 0
             ELSE CHOOSE i \in notGreater : \A j \in notGreater : j <= i
    IN  SubSeq(s, 1, p) \o <<x>> \o SubSeq(s, p + 1, Len(s))

\* slice::sort_by
SortBy(s, by) ==
    LET sorted[n \in 0..Len(s)] ==
            IF n = 0 THEN <<>> ELSE InsertBy(sorted[n - 1], s[n], by)
    IN  sorted[Len(s)]

\* Iterator::find in get_citation
FindSkippingHead(cs, id) ==
    LET hits == {i \in 2..Len(cs) : cs[i].id = id}
    IN  IF hits = {} THEN None
        ELSE Some(cs[CHOOSE i \in hits : \A j \in hits : i <= j])

RECURSIVE Find(_, _)
Find(cs, id) ==
    IF Len(cs) = 0 THEN None
    ELSE IF Head(cs).id = id THEN Some(Head(cs))
    ELSE Find(Tail(cs), id)

\* Bibliography::new
BibInit ==
    /\ citations = <<>>
    /\ op = "new"
    /\ arg = None
    /\ result = None
    /\ prev = <<>>

\* Bibliography::add_citation
add_citation_front(c) ==
    /\ Len(citations) < MaxCitations
    /\ op' = "add_citation"
    /\ arg' = Some(c)
    /\ prev' = citations
    /\ result' = AddResult(citations, c)
    /\ citations' = IF AddResult(citations, c).tag = "Ok"
                    THEN <<c>> \o citations
                    ELSE citations

add_citation(c) ==
    /\ Len(citations) < MaxCitations
    /\ op' = "add_citation"
    /\ arg' = Some(c)
    /\ prev' = citations
    /\ result' = AddResult(citations, c)
    /\ citations' = IF AddResult(citations, c).tag = "Ok"
                    THEN Append(citations, c)
                    ELSE citations

\* Bibliography::get_citation
get_citation(id) ==
    /\ op' = "get_citation"
    /\ arg' = Some(id)
    /\ prev' = citations
    /\ result' = Find(citations, id)
    /\ UNCHANGED citations

\* Bibliography::sort_by_author
sort_by_author ==
    /\ op' = "sort_by_author"
    /\ arg' = None
    /\ prev' = citations
    /\ result' = None
    /\ citations' = SortBy(citations, "author")

\* Bibliography::sort_by_year
sort_by_year ==
    /\ op' = "sort_by_year"
    /\ arg' = None
    /\ prev' = citations
    /\ result' = None
    /\ citations' = SortBy(citations, "year")

----------------------------------------------------------------------------
(* api/date.rs: PublishDate *)

MaxCmpMonth == 2    \* months 1..MaxCmpMonth are compared
MaxCmpDay   == 2    \* days 1..MaxCmpDay are compared
MaxDayInput == 32   \* from_year_month_day is tried with days 0..MaxDayInput

\* chrono::Month, January = 1 .. December = 12, ordered by declaration
Months == 1..12

\* chrono::NaiveDate::MIN.year() and MAX.year()
MIN_YEAR == -262143

MAX_YEAR == 262142

\* chrono::NaiveDate::leap_year
LeapYear(year) == year % 4 = 0 /\ (year % 100 # 0 \/ year % 400 = 0)

\* chrono::Month::num_days: only February consults the year
num_days(month, year) ==
    IF month = 2
    THEN IF year < MIN_YEAR \/ year > MAX_YEAR THEN None
         ELSE IF LeapYear(year) THEN Some(29) ELSE Some(28)
    ELSE IF month \in {4, 6, 9, 11} THEN Some(30)
    ELSE Some(31)

\* PublishDate::from_year
from_year(year) == [tag |-> "Year", year |-> year]

\* PublishDate::from_year_month
from_year_month(year, month) == [tag |-> "YearMonth", year |-> year, month |-> month]

\* the enum literal PublishDate::YearMonthDay { year, month, day }
YearMonthDay(year, month, day) ==
    [tag |-> "YearMonthDay", year |-> year, month |-> month, day |-> day]

\* the half-open range lo..hi of Rust
RangeContains(lo, hi, x) == lo <= x /\ x < hi

\* PublishDate::from_year_month_day
from_year_month_day(year, month, day) ==
    IF num_days(month, year).tag = "Some"
    THEN IF RangeContains(1, num_days(month, year).val, day)
         THEN Ok(YearMonthDay(year, month, day))
         ELSE Err("InvalidDayForMonth")
    ELSE Err("OutOfRangeYear")

\* PublishDate::year
year_of(d) == d.year

\* PublishDate::month
month_of(d) == IF d.tag = "Year" THEN None ELSE Some(d.month)

\* PublishDate::day
day_of(d) == IF d.tag = "YearMonthDay" THEN Some(d.day) ELSE None

\* the match on a pair of options in Ord::cmp
OptCmpNoPrecision(x, y) ==
    IF x.tag = "Some" /\ y.tag = "Some" THEN IntCmp(x.val, y.val) ELSE "Equal"

OptCmp(x, y) ==
    IF x.tag = "None" /\ y.tag = "None" THEN "Equal"
    ELSE IF x.tag = "None" THEN "Less"
    ELSE IF y.tag = "None" THEN "Greater"
    ELSE IntCmp(x.val, y.val)

\* impl Ord for PublishDate
cmp_without_day(a, b) ==
    Then(IntCmp(year_of(a), year_of(b)), OptCmp(month_of(a), month_of(b)))

cmp(a, b) ==
    Then(Then(IntCmp(year_of(a), year_of(b)),
              OptCmp(month_of(a), month_of(b))),
         OptCmp(day_of(a), day_of(b)))

\* #[derive(PartialEq)] for PublishDate
PartialEq(a, b) ==
    /\ a.tag = b.tag
    /\ a.year = b.year
    /\ (a.tag # "Year" => a.month = b.month)
    /\ (a.tag = "YearMonthDay" => a.day = b.day)

CmpYears == {2023, 2024}

\* every PublishDate the constructors give for the compared components
DateValues ==
    {from_year(y) : y \in CmpYears}
    \cup {from_year_month(y, m) : y \in CmpYears, m \in 1..MaxCmpMonth}
    \cup {r.val : r \in {q \in {from_year_month_day(y, m, d) :
                                  y \in CmpYears, m \in 1..MaxCmpMonth,
                                  d \in 1..MaxCmpDay} : q.tag = "Ok"}}

OrdInit ==
    /\ da \in DateValues
    /\ db \in DateValues
    /\ dc \in DateValues
    /\ ord = None

\* a.cmp(&b), b.cmp(&a), b.cmp(&c), a.cmp(&c) and a == b
Compare ==
    /\ ord = None
    /\ ord' = Some([ab |-> cmp(da, db), ba |-> cmp(db, da),
                    bc |-> cmp(db, dc), ac |-> cmp(da, dc),
                    eq |-> PartialEq(da, db)])
    /\ UNCHANGED <<da, db, dc>>

CtorYears == {1900, 2000, 2023, 2024, 300000}

CtorInit ==
    /\ dateIn \in [year : CtorYears, month : Months, day : 0..MaxDayInput]
    /\ dateOut = None
    /\ dateStr = None

CallFromYear ==
    /\ dateOut' = Some([ctor |-> "from_year", ret |-> Ok(from_year(dateIn.year))])
    /\ dateStr' = None
    /\ UNCHANGED dateIn

CallFromYearMonth ==
    /\ dateOut' = Some([ctor |-> "from_year_month",
                        ret |-> Ok(from_year_month(dateIn.year, dateIn.month))])
    /\ dateStr' = None
    /\ UNCHANGED dateIn

CallFromYearMonthDay ==
    /\ dateOut' = Some([ctor |-> "from_year_month_day",
                        ret |-> from_year_month_day(dateIn.year, dateIn.month, dateIn.day)])
    /\ dateStr' = None
    /\ UNCHANGED dateIn

----------------------------------------------------------------------------
(* api/date.rs: the renderings of PublishDate *)

\* Display for an unsigned integer: its decimal digits
RECURSIVE Digits(_)
Digits(n) == IF n < 10 THEN <<48 + n>> ELSE Digits(n \div 10) \o <<48 + (n % 10)>>

\* Display for i32, u32 and u16
Itoa(n) == IF n < 0 THEN <<45>> \o Digits(0 - n) ELSE Digits(n)

\* chrono::Month::name
MonthName(month) ==
    IF month = 1 THEN <<74, 97, 110, 117, 97, 114, 121>>  \* "January"
    ELSE IF month = 2 THEN <<70, 101, 98, 114, 117, 97, 114, 121>>  \* "February"
    ELSE IF month = 3 THEN <<77, 97, 114, 99, 104>>  \* "March"
    ELSE IF month = 4 THEN <<65, 112, 114, 105, 108>>  \* "April"
    ELSE IF month = 5 THEN <<77, 97, 121>>  \* "May"
    ELSE IF month = 6 THEN <<74, 117, 110, 101>>  \* "June"
    ELSE IF month = 7 THEN <<74, 117, 108, 121>>  \* "July"
    ELSE IF month = 8 THEN <<65, 117, 103, 117, 115, 116>>  \* "August"
    ELSE IF month = 9 THEN <<83, 101, 112, 116, 101, 109, 98, 101, 114>>  \* "September"
    ELSE IF month = 10 THEN <<79, 99, 116, 111, 98, 101, 114>>  \* "October"
    ELSE IF month = 11 THEN <<78, 111, 118, 101, 109, 98, 101, 114>>  \* "November"
    ELSE <<68, 101, 99, 101, 109, 98, 101, 114>>  \* "December"

\* ieee_abbreviated_month_name
ieee_abbreviated_month_name_may_period(month) ==
    IF month = 1 THEN <<74, 97, 110, 46>>  \* "Jan."
    ELSE IF month = 2 THEN <<70, 101, 98, 46>>  \* "Feb."
    ELSE IF month = 3 THEN <<77, 97, 114, 46>>  \* "Mar."
    ELSE IF month = 4 THEN <<65, 112, 114, 46>>  \* "Apr."
    ELSE IF month = 5 THEN <<77, 97, 121, 46>>  \* "May."
    ELSE IF month = 6 THEN <<74, 117, 110, 46>>  \* "Jun."
    ELSE IF month = 7 THEN <<74, 117, 108, 46>>  \* "Jul."
    ELSE IF month = 8 THEN <<65, 117, 103, 46>>  \* "Aug."
    ELSE IF month = 9 THEN <<83, 101, 112, 46>>  \* "Sep."
    ELSE IF month = 10 THEN <<79, 99, 116, 46>>  \* "Oct."
    ELSE IF month = 11 THEN <<78, 111, 118, 46>>  \* "Nov."
    ELSE <<68, 101, 99, 46>>  \* "Dec."

ieee_abbreviated_month_name(month) ==
    IF month = 1 THEN <<74, 97, 110, 46>>  \* "Jan."
    ELSE IF month = 2 THEN <<70, 101, 98, 46>>  \* "Feb."
    ELSE IF month = 3 THEN <<77, 97, 114, 46>>  \* "Mar."
    ELSE IF month = 4 THEN <<65, 112, 114, 46>>  \* "Apr."
    ELSE IF month = 5 THEN <<77, 97, 121>>  \* "May"
    ELSE IF month = 6 THEN <<74, 117, 110, 46>>  \* "Jun."
    ELSE IF month = 7 THEN <<74, 117, 108, 46>>  \* "Jul."
    ELSE IF month = 8 THEN <<65, 117, 103, 46>>  \* "Aug."
    ELSE IF month = 9 THEN <<83, 101, 112, 46>>  \* "Sep."
    ELSE IF month = 10 THEN <<79, 99, 116, 46>>  \* "Oct."
    ELSE IF month = 11 THEN <<78, 111, 118, 46>>  \* "Nov."
    ELSE <<68, 101, 99, 46>>  \* "Dec."

\* PublishDate::fmt_for_ieee_citation
fmt_for_ieee_citation(d) ==
    IF d.tag = "Year" THEN Itoa(d.year)
    ELSE IF d.tag = "YearMonth"
    THEN ieee_abbreviated_month_name(d.month) \o <<44, 32>> \o Itoa(d.year)
    ELSE ieee_abbreviated_month_name(d.month) \o <<32>> \o Itoa(d.day)
         \o <<44, 32>> \o Itoa(d.year)

\* PublishDate::fmt_for_apa_citation
fmt_for_apa_citation(d) ==
    IF d.tag = "Year" THEN Itoa(d.year)
    ELSE IF d.tag = "YearMonth"
    THEN Itoa(d.year) \o <<44, 32>> \o MonthName(d.month)
    ELSE Itoa(d.year) \o <<44, 32>> \o MonthName(d.month) \o <<32>> \o Itoa(d.day)

\* fmt_for_ieee_citation on the PublishDate a constructor returned
CallFmtIeee ==
    /\ dateOut # None
    /\ dateOut.val.ret.tag = "Ok"
    /\ dateStr' = Some([style |-> "ieee",
                        str |-> fmt_for_ieee_citation(dateOut.val.ret.val)])
    /\ UNCHANGED <<dateIn, dateOut>>

\* fmt_for_apa_citation on the PublishDate a constructor returned
CallFmtApa ==
    /\ dateOut # None
    /\ dateOut.val.ret.tag = "Ok"
    /\ dateStr' = Some([style |-> "apa",
                        str |-> fmt_for_apa_citation(dateOut.val.ret.val)])
    /\ UNCHANGED <<dateIn, dateOut>>

----------------------------------------------------------------------------
(* api/author.rs: PersonName *)

MaxNameLen == 2     \* longest name component tried

\* 'J', 'S' and U+0301, the combining acute accent
NameChars == {74, 83, 769}

\* the strings of at most MaxNameLen characters
NameStrs == UNION {[1..n -> NameChars] : n \in 0..MaxNameLen}

\* str::len
StrLen(s) == Len(s)

\* PersonName::from_last
from_last(last) ==
    IF StrLen(last) = 0 THEN Err("EmptyString")
    ELSE Ok([tag |-> "SurnameOnly", surname |-> last])

\* PersonName::from_first_last
from_first_last_swapped(first, last) ==
    IF StrLen(first) = 0 THEN Err("EmptyString")
    ELSE IF StrLen(last) = 0 THEN Err("EmptyString")
    ELSE Ok([tag |-> "SurnameAndFirstName", surname |-> first, first_name |-> last])

from_first_last(first, last) ==
    IF StrLen(first) = 0 THEN Err("EmptyString")
    ELSE IF StrLen(last) = 0 THEN Err("EmptyString")
    ELSE Ok([tag |-> "SurnameAndFirstName", surname |-> last, first_name |-> first])

\* PersonName::from_first_middle_last
from_first_middle_last_middle_unchecked(first, middle, last) ==
    IF StrLen(first) = 0 THEN Err("EmptyString")
    ELSE IF StrLen(last) = 0 THEN Err("EmptyString")
    ELSE Ok([tag |-> "SurnameAndFirstNameAndMiddleName", surname |-> last,
             first_name |-> first, middle_name |-> middle])

from_first_middle_last(first, middle, last) ==
    IF StrLen(first) = 0 THEN Err("EmptyString")
    ELSE IF StrLen(middle) = 0 THEN Err("EmptyString")
    ELSE IF StrLen(last) = 0 THEN Err("EmptyString")
    ELSE Ok([tag |-> "SurnameAndFirstNameAndMiddleName", surname |-> last,
             first_name |-> first, middle_name |-> middle])

\* what a call gives: a returned value, or a panic
Return(v) == [tag |-> "Return", val |-> v]

Panic == [tag |-> "Panic"]

\* the characters with the Grapheme_Extend property among NameChars
GraphemeExtend == {769}

\* the length of the first extended grapheme cluster of a non-empty s: its
\* first character and the Grapheme_Extend characters that follow it
FirstClusterLen(s) ==
    LET stops == {k \in 1..Len(s) : k = Len(s) \/ s[k + 1] \notin GraphemeExtend}
    IN  CHOOSE k \in stops : \A j \in stops : k <= j

\* first_grapheme_from_str
first_char_from_str(s) == IF Len(s) = 0 THEN None ELSE Some(SubSeq(s, 1, 1))

first_grapheme_from_str(s) ==
    IF Len(s) = 0 THEN None ELSE Some(SubSeq(s, 1, FirstClusterLen(s)))

\* PersonName::as_ieee_string; ". " is <<46, 32>>
PersonName_as_ieee_string(p) ==
    IF p.tag = "SurnameOnly" THEN Return(p.surname)
    ELSE IF p.tag = "SurnameAndFirstName"
    THEN LET f == first_grapheme_from_str(p.first_name)
         IN  IF f.tag = "Some" THEN Return(f.val \o <<46, 32>> \o p.surname)
             ELSE Return(p.surname)
    ELSE LET f == first_grapheme_from_str(p.first_name)
             m == first_grapheme_from_str(p.middle_name)
         IN  IF f.tag = "None" /\ m.tag = "None" THEN Return(p.surname)
             ELSE IF f.tag = "None" \/ m.tag = "None" THEN Panic
             ELSE Return(f.val \o <<46, 32>> \o m.val \o <<46, 32>> \o p.surname)

\* PersonName::as_apa_string; ", " is <<44, 32>>, "." is <<46>>
PersonName_as_apa_string(p) ==
    IF p.tag = "SurnameOnly" THEN Return(p.surname)
    ELSE IF p.tag = "SurnameAndFirstName"
    THEN LET f == first_grapheme_from_str(p.first_name)
         IN  IF f.tag = "Some" THEN Return(p.surname \o <<44, 32>> \o f.val \o <<46>>)
             ELSE Return(p.surname)
    ELSE LET f == first_grapheme_from_str(p.first_name)
             m == first_grapheme_from_str(p.middle_name)
         IN  IF f.tag = "None" /\ m.tag = "None" THEN Return(p.surname)
             ELSE IF f.tag = "None" \/ m.tag = "None" THEN Panic
             ELSE Return(p.surname \o <<44, 32>> \o f.val \o <<46, 32>>
                         \o m.val \o <<46>>)

NameInit ==
    /\ nameIn \in [first : NameStrs, middle : NameStrs, last : NameStrs]
    /\ nameOut = None
    /\ nameStr = None

CallFromLast ==
    /\ nameOut' = Some([ctor |-> "from_last", ret |-> from_last(nameIn.last)])
    /\ nameStr' = None
    /\ UNCHANGED nameIn

CallFromFirstLast ==
    /\ nameOut' = Some([ctor |-> "from_first_last",
                        ret |-> from_first_last(nameIn.first, nameIn.last)])
    /\ nameStr' = None
    /\ UNCHANGED nameIn

CallFromFirstMiddleLast ==
    /\ nameOut' = Some([ctor |-> "from_first_middle_last",
                        ret |-> from_first_middle_last(nameIn.first, nameIn.middle,
                                                       nameIn.last)])
    /\ nameStr' = None
    /\ UNCHANGED nameIn

\* as_ieee_string on the PersonName a constructor returned
RenderNameIeee ==
    /\ nameOut # None
    /\ nameOut.val.ret.tag = "Ok"
    /\ nameStr' = Some([style |-> "ieee",
                        out |-> PersonName_as_ieee_string(nameOut.val.ret.val)])
    /\ UNCHANGED <<nameIn, nameOut>>

\* as_apa_string on the PersonName a constructor returned
RenderNameApa ==
    /\ nameOut # None
    /\ nameOut.val.ret.tag = "Ok"
    /\ nameStr' = Some([style |-> "apa",
                        out |-> PersonName_as_apa_string(nameOut.val.ret.val)])
    /\ UNCHANGED <<nameIn, nameOut>>

----------------------------------------------------------------------------
(* api/author.rs: AcademicAuthor and GenericAuthor *)

MaxPersons == 7     \* longest list of persons rendered

IEEE_ACADEMIC_ET_AL_CUTOFF == 6

APA_GENERIC_ET_AL_CUTOFF == 5

\* " and "
AND_ == <<32, 97, 110, 100, 32>>

\* " & "
AMP_ == <<32, 38, 32>>

\* ", "
COMMA_SPACE == <<44, 32>>

\* " et al."
ET_AL == <<32, 101, 116, 32, 97, 108, 46>>

\* [String]::join
Join(strs, sep) ==
    LET joined[n \in 0..Len(strs)] ==
            IF n = 0 THEN <<>>
            ELSE IF n = 1 THEN strs[1]
            ELSE joined[n - 1] \o sep \o strs[n]
    IN  joined[Len(strs)]

\* person.as_ieee_string() of a person whose rendering returns
IeeeName(p) == PersonName_as_ieee_string(p).val

\* person.as_apa_string() of a person whose rendering returns
ApaName(p) == PersonName_as_apa_string(p).val

\* persons_iter.map(|person| person.as_ieee_string()).collect() after next_back()
IeeeNamesExceptLast(ps) == [i \in 1..(Len(ps) - 1) |-> IeeeName(ps[i])]

\* AcademicAuthor::as_ieee_string
AcademicAuthor_as_ieee_string_single_bare(a) ==
    IF a.tag = "Organization" THEN Some(a.name \o <<44>>)
    ELSE LET ps == a.persons IN
         IF Len(ps) = 0 THEN None
         ELSE IF Len(ps) = 1 THEN Some(IeeeName(ps[1]))
         ELSE IF Len(ps) = 2
         THEN Some(IeeeName(ps[1]) \o AND_ \o IeeeName(ps[2]) \o <<44>>)
         ELSE IF Len(ps) > IEEE_ACADEMIC_ET_AL_CUTOFF
         THEN Some(IeeeName(ps[1]) \o ET_AL \o <<44>>)
         ELSE Some(Join(IeeeNamesExceptLast(ps), COMMA_SPACE) \o <<44>> \o AND_
                   \o IeeeName(ps[Len(ps)]) \o <<44>>)

AcademicAuthor_as_ieee_string(a) ==
    IF a.tag = "Organization" THEN Some(a.name \o <<44>>)
    ELSE LET ps == a.persons IN
         IF Len(ps) = 0 THEN None
         ELSE IF Len(ps) = 1 THEN Some(IeeeName(ps[1]) \o <<44>>)
         ELSE IF Len(ps) = 2
         THEN Some(IeeeName(ps[1]) \o AND_ \o IeeeName(ps[2]) \o <<44>>)
         ELSE IF Len(ps) > IEEE_ACADEMIC_ET_AL_CUTOFF
         THEN Some(IeeeName(ps[1]) \o ET_AL \o <<44>>)
         ELSE Some(Join(IeeeNamesExceptLast(ps), COMMA_SPACE) \o <<44>> \o AND_
                   \o IeeeName(ps[Len(ps)]) \o <<44>>)

\* AcademicAuthor::as_apa_string
AcademicAuthor_as_apa_string(a) ==
    IF a.tag = "Organization" THEN Some(a.name)
    ELSE LET ps == a.persons IN
         IF Len(ps) = 0 THEN None
         ELSE IF Len(ps) = 1 THEN Some(ApaName(ps[1]))
         ELSE IF Len(ps) = 2 THEN Some(ApaName(ps[1]) \o AMP_ \o ApaName(ps[2]))
         ELSE Some(ApaName(ps[1]) \o ET_AL)

\* GenericAuthor::as_ieee_string
GenericAuthor_as_ieee_string_single_comma(a) ==
    IF a.tag = "Organization" THEN Some(a.name \o <<44>>)
    ELSE LET ps == a.persons IN
         IF Len(ps) = 0 THEN None
         ELSE IF Len(ps) = 1 THEN Some(IeeeName(ps[1]) \o <<44>>)
         ELSE IF Len(ps) = 2 THEN Some(IeeeName(ps[1]) \o AND_ \o IeeeName(ps[2]))
         ELSE IF Len(ps) > IEEE_ACADEMIC_ET_AL_CUTOFF
         THEN Some(IeeeName(ps[1]) \o ET_AL)
         ELSE Some(Join(IeeeNamesExceptLast(ps), COMMA_SPACE) \o <<44>> \o AND_
                   \o IeeeName(ps[Len(ps)]))

GenericAuthor_as_ieee_string_cutoff_off_by_one(a) ==
    IF a.tag = "Organization" THEN Some(a.name \o <<44>>)
    ELSE LET ps == a.persons IN
         IF Len(ps) = 0 THEN None
         ELSE IF Len(ps) = 1 THEN Some(IeeeName(ps[1]))
         ELSE IF Len(ps) = 2 THEN Some(IeeeName(ps[1]) \o AND_ \o IeeeName(ps[2]))
         ELSE IF Len(ps) >= IEEE_ACADEMIC_ET_AL_CUTOFF
         THEN Some(IeeeName(ps[1]) \o ET_AL)
         ELSE Some(Join(IeeeNamesExceptLast(ps), COMMA_SPACE) \o <<44>> \o AND_
                   \o IeeeName(ps[Len(ps)]))

GenericAuthor_as_ieee_string(a) ==
    IF a.tag = "Organization" THEN Some(a.name \o <<44>>)
    ELSE LET ps == a.persons IN
         IF Len(ps) = 0 THEN None
         ELSE IF Len(ps) = 1 THEN Some(IeeeName(ps[1]))
         ELSE IF Len(ps) = 2 THEN Some(IeeeName(ps[1]) \o AND_ \o IeeeName(ps[2]))
         ELSE IF Len(ps) > IEEE_ACADEMIC_ET_AL_CUTOFF
         THEN Some(IeeeName(ps[1]) \o ET_AL)
         ELSE Some(Join(IeeeNamesExceptLast(ps), COMMA_SPACE) \o <<44>> \o AND_
                   \o IeeeName(ps[Len(ps)]))

\* GenericAuthor::as_apa_string
GenericAuthor_as_apa_string_org_comma(a) ==
    IF a.tag = "Organization" THEN Some(a.name \o <<44>>)
    ELSE LET ps == a.persons IN
         IF Len(ps) = 0 THEN None
         ELSE IF Len(ps) = 1 THEN Some(ApaName(ps[1]))
         ELSE IF Len(ps) = 2
         THEN Some(ApaName(ps[1]) \o <<44>> \o AMP_ \o ApaName(ps[2]))
         ELSE IF Len(ps) > APA_GENERIC_ET_AL_CUTOFF
         THEN Some(Join(IeeeNamesExceptLast(ps), COMMA_SPACE) \o <<44>> \o AMP_
                   \o IeeeName(ps[Len(ps)]))
         ELSE Some(ApaName(ps[1]) \o ET_AL)

GenericAuthor_as_apa_string(a) ==
    IF a.tag = "Organization" THEN Some(a.name)
    ELSE LET ps == a.persons IN
         IF Len(ps) = 0 THEN None
         ELSE IF Len(ps) = 1 THEN Some(ApaName(ps[1]))
         ELSE IF Len(ps) = 2
         THEN Some(ApaName(ps[1]) \o <<44>> \o AMP_ \o ApaName(ps[2]))
         ELSE IF Len(ps) > APA_GENERIC_ET_AL_CUTOFF
         THEN Some(Join(IeeeNamesExceptLast(ps), COMMA_SPACE) \o <<44>> \o AMP_
                   \o IeeeName(ps[Len(ps)]))
         ELSE Some(ApaName(ps[1]) \o ET_AL)

\* "Doe"
DOE == <<68, 111, 101>>

\* "Smith"
SMITH == <<83, 109, 105, 116, 104>>

\* "Jane"
JANE == <<74, 97, 110, 101>>

\* "Dilly"
DILLY == <<68, 105, 108, 108, 121>>

\* the persons of the lists: Doe; J Smith; Jane Dilly Doe
PersonPool ==
    {from_last(DOE).val, from_first_last(<<74>>, SMITH).val,
     from_first_middle_last(JANE, DILLY, DOE).val}

\* "IEEE", "W3C"
OrgNames == {<<73, 69, 69, 69>>, <<87, 51, 67>>}

\* the values of AcademicAuthor and of GenericAuthor, which have the same shape
Authors ==
    {[tag |-> "Persons", persons |-> ps] :
        ps \in UNION {[1..n -> PersonPool] : n \in 0..MaxPersons}}
    \cup {[tag |-> "Organization", name |-> n] : n \in OrgNames}

\* a rendering of persons panics when the rendering of one of them does
PersonPanics(a) ==
    /\ a.tag = "Persons"
    /\ \E i \in 1..Len(a.persons) :
           \/ PersonName_as_ieee_string(a.persons[i]) = Panic
           \/ PersonName_as_apa_string(a.persons[i]) = Panic

AuthorInit ==
    /\ authorIn \in Authors
    /\ authorOut = None

CallGenericIeee ==
    /\ authorOut' = Some([type |-> "GenericAuthor", style |-> "ieee",
                          out |-> IF PersonPanics(authorIn) THEN Panic
                                  ELSE Return(GenericAuthor_as_ieee_string(authorIn))])
    /\ UNCHANGED authorIn

CallGenericApa ==
    /\ authorOut' = Some([type |-> "GenericAuthor", style |-> "apa",
                          out |-> IF PersonPanics(authorIn) THEN Panic
                                  ELSE Return(GenericAuthor_as_apa_string(authorIn))])
    /\ UNCHANGED authorIn

CallAcademicIeee ==
    /\ authorOut' = Some([type |-> "AcademicAuthor", style |-> "ieee",
                          out |-> IF PersonPanics(authorIn) THEN Panic
                                  ELSE Return(AcademicAuthor_as_ieee_string(authorIn))])
    /\ UNCHANGED authorIn

CallAcademicApa ==
    /\ authorOut' = Some([type |-> "AcademicAuthor", style |-> "apa",
                          out |-> IF PersonPanics(authorIn) THEN Panic
                                  ELSE Return(AcademicAuthor_as_apa_string(authorIn))])
    /\ UNCHANGED authorIn

----------------------------------------------------------------------------
(* api/media/version.rs: SemVer and GenericMediaVersion *)

\* crate::unicode::EMDASH
EMDASH == <<8212>>

\* str::ends_with
EndsWith(s, suffix) ==
    /\ Len(suffix) <= Len(s)
    /\ SubSeq(s, Len(s) - Len(suffix) + 1, Len(s)) = suffix

\* ordinal::ToOrdinal::to_ordinal_string: the digits and the suffix chosen
\* from the last digits
to_ordinal_string(n) ==
    LET digits == Itoa(n)
        suffix == IF EndsWith(digits, <<49>>) /\ ~EndsWith(digits, <<49, 49>>)
                  THEN <<115, 116>>  \* "st"
                  ELSE IF EndsWith(digits, <<50>>) /\ ~EndsWith(digits, <<49, 50>>)
                  THEN <<110, 100>>  \* "nd"
                  ELSE IF EndsWith(digits, <<51>>) /\ ~EndsWith(digits, <<49, 51>>)
                  THEN <<114, 100>>  \* "rd"
                  ELSE <<116, 104>>  \* "th"
    IN digits \o suffix

\* SemVer::from_major
from_major(major) == [tag |-> "Major", major |-> major]

\* SemVer::from_major_minor
from_major_minor(major, minor) ==
    [tag |-> "MajorMinor", major |-> major, minor |-> minor]

\* SemVer::from_major_minor_patch
from_major_minor_patch(major, minor, patch) ==
    [tag |-> "MajorMinorPatch", major |-> major, minor |-> minor, patch |-> patch]

\* impl Display for SemVer
SemVer_fmt(sem) ==
    IF sem.tag = "Major" THEN Itoa(sem.major)
    ELSE IF sem.tag = "MajorMinor" THEN Itoa(sem.major) \o <<46>> \o Itoa(sem.minor)
    ELSE Itoa(sem.major) \o <<46>> \o Itoa(sem.minor) \o <<46>> \o Itoa(sem.patch)

\* the variants of GenericMediaVersion
DigitalEdition(number) == [tag |-> "DigitalEdition", number |-> number]

Edition(number) == [tag |-> "Edition", number |-> number]

SemVerVersion(sem) == [tag |-> "SemVer", sem |-> sem]

Volume(number) == [tag |-> "Volume", number |-> number]

VolumeRange(start, end) == [tag |-> "VolumeRange", start |-> start, end |-> end]

\* GenericMediaVersion::as_ieee_string
GenericMediaVersion_as_ieee_string_volume_parens(v) ==
    IF v.tag = "DigitalEdition"
    THEN to_ordinal_string(v.number)
         \o <<32, 100, 105, 103, 105, 116, 97, 108, 32, 101, 100, 46>>  \* " digital ed."
    ELSE IF v.tag = "Edition"
    THEN to_ordinal_string(v.number)
         \o <<32, 101, 100, 46>>  \* " ed."
    ELSE IF v.tag = "SemVer"
    THEN <<118>>  \* "v"
         \o SemVer_fmt(v.sem)
    ELSE IF v.tag = "Volume"
    THEN <<40, 118, 111, 108, 46, 32>>  \* "(vol. "
         \o Itoa(v.number)
         \o <<41>>  \* ")"
    ELSE <<118, 111, 108, 115, 46, 32>>  \* "vols. "
         \o Itoa(v.start) \o EMDASH \o Itoa(v.end)

GenericMediaVersion_as_ieee_string(v) ==
    IF v.tag = "DigitalEdition"
    THEN to_ordinal_string(v.number)
         \o <<32, 100, 105, 103, 105, 116, 97, 108, 32, 101, 100, 46>>  \* " digital ed."
    ELSE IF v.tag = "Edition"
    THEN to_ordinal_string(v.number)
         \o <<32, 101, 100, 46>>  \* " ed."
    ELSE IF v.tag = "SemVer"
    THEN <<118>>  \* "v"
         \o SemVer_fmt(v.sem)
    ELSE IF v.tag = "Volume"
    THEN <<118, 111, 108, 46, 32>>  \* "vol. "
         \o Itoa(v.number)
    ELSE <<118, 111, 108, 115, 46, 32>>  \* "vols. "
         \o Itoa(v.start) \o EMDASH \o Itoa(v.end)

\* GenericMediaVersion::as_apa_string
GenericMediaVersion_as_apa_string(v) ==
    IF v.tag = "DigitalEdition"
    THEN <<40>>  \* "("
         \o to_ordinal_string(v.number)
         \o <<32, 100, 105, 103, 105, 116, 97, 108, 32, 101, 100, 46, 41>>  \* " digital ed.)"
    ELSE IF v.tag = "Edition"
    THEN <<40>>  \* "("
         \o to_ordinal_string(v.number)
         \o <<32, 101, 100, 46, 41>>  \* " ed.)"
    ELSE IF v.tag = "SemVer"
    THEN <<40, 118>>  \* "(v"
         \o SemVer_fmt(v.sem)
         \o <<41>>  \* ")"
    ELSE IF v.tag = "Volume"
    THEN <<40, 86, 111, 108, 46, 32>>  \* "(Vol. "
         \o Itoa(v.number)
         \o <<41>>  \* ")"
    ELSE <<40, 86, 111, 108, 115, 46, 32>>  \* "(Vols. "
         \o Itoa(v.start) \o EMDASH \o Itoa(v.end)
         \o <<41>>  \* ")"

MaxVerNum == 23     \* largest of the consecutive edition and volume numbers

\* edition and volume numbers (u16): the small ones, the hundreds' teens and
\* the largest
VerNumbers == (0..MaxVerNum) \cup {101, 111, 112, 113, 121, 65535}

\* the numbers of a semantic version (u32)
SemVerNumbers == {0, 1, 10}

SemVers ==
    {from_major(a) : a \in SemVerNumbers}
    \cup {from_major_minor(a, b) : a \in SemVerNumbers, b \in SemVerNumbers}
    \cup {from_major_minor_patch(a, b, c) :
            a \in SemVerNumbers, b \in SemVerNumbers, c \in SemVerNumbers}

Versions ==
    {DigitalEdition(n) : n \in VerNumbers}
    \cup {Edition(n) : n \in VerNumbers}
    \cup {SemVerVersion(sem) : sem \in SemVers}
    \cup {Volume(n) : n \in VerNumbers}
    \cup {VolumeRange(a, b) : a \in {1, 2, 12}, b \in {2, 3, 14}}

VersionInit ==
    /\ verIn \in Versions
    /\ verOut = None

CallVersionIeee ==
    /\ verOut' = Some([style |-> "ieee",
                       str |-> GenericMediaVersion_as_ieee_string(verIn)])
    /\ UNCHANGED verIn

CallVersionApa ==
    /\ verOut' = Some([style |-> "apa",
                       str |-> GenericMediaVersion_as_apa_string(verIn)])
    /\ UNCHANGED verIn

----------------------------------------------------------------------------
(* api/media/book.rs and api/citation.rs: Book and Citation::Book *)

\* the quotation marks around a chapter
LEFT_QUOTE == <<8220>>

RIGHT_QUOTE == <<8221>>

\* the date arms of the IEEE renderings: a day without a month panics
DatePanics(published) ==
    /\ published # None
    /\ month_of(published.val) = None
    /\ day_of(published.val) # None

\* the date part of the IEEE renderings, without the closing period
IeeeDatePart(d) ==
    IF month_of(d) = None THEN Itoa(year_of(d))
    ELSE IF day_of(d) = None
    THEN ieee_abbreviated_month_name(month_of(d).val) \o <<44, 32>> \o Itoa(year_of(d))
    ELSE ieee_abbreviated_month_name(month_of(d).val) \o <<32>> \o Itoa(day_of(d).val)
         \o <<44, 32>> \o Itoa(year_of(d))

\* impl IeeeFormatting for Book: citation_string
Book_ieee_citation_string_comma_after_quote(book) ==
    LET authors == GenericAuthor_as_ieee_string(book.author)
        authors_editors == IF authors # None THEN authors.val \o <<32>> ELSE <<>>
        title_version ==
            IF book.chapter = None /\ book.version = None
            THEN book.title \o <<46>>
            ELSE IF book.chapter = None
            THEN book.title \o <<44, 32>>
                 \o GenericMediaVersion_as_ieee_string(book.version.val)
            ELSE IF book.version = None
            THEN LEFT_QUOTE \o book.chapter.val \o RIGHT_QUOTE \o <<44>>
                 \o <<32, 105, 110, 32>> \o book.title \o <<46>>
            ELSE LEFT_QUOTE \o book.chapter.val \o RIGHT_QUOTE \o <<44>>
                 \o <<32, 105, 110, 32>> \o book.title \o <<44, 32>>
                 \o GenericMediaVersion_as_ieee_string(book.version.val) \o <<46>>
        published ==
            IF book.published # None
            THEN <<32>> \o IeeeDatePart(book.published.val) \o <<46>>
            ELSE <<>>
    IN  IF PersonPanics(book.author) \/ DatePanics(book.published) THEN Panic
        ELSE Return(authors_editors \o title_version \o published)

Book_ieee_citation_string(book) ==
    LET authors == GenericAuthor_as_ieee_string(book.author)
        authors_editors == IF authors # None THEN authors.val \o <<32>> ELSE <<>>
        title_version ==
            IF book.chapter = None /\ book.version = None
            THEN book.title \o <<46>>
            ELSE IF book.chapter = None
            THEN book.title \o <<44, 32>>
                 \o GenericMediaVersion_as_ieee_string(book.version.val)
            ELSE IF book.version = None
            THEN LEFT_QUOTE \o book.chapter.val \o <<44>> \o RIGHT_QUOTE
                 \o <<32, 105, 110, 32>> \o book.title \o <<46>>
            ELSE LEFT_QUOTE \o book.chapter.val \o <<44>> \o RIGHT_QUOTE
                 \o <<32, 105, 110, 32>> \o book.title \o <<44, 32>>
                 \o GenericMediaVersion_as_ieee_string(book.version.val) \o <<46>>
        published ==
            IF book.published # None
            THEN <<32>> \o IeeeDatePart(book.published.val) \o <<46>>
            ELSE <<>>
    IN  IF PersonPanics(book.author) \/ DatePanics(book.published) THEN Panic
        ELSE Return(authors_editors \o title_version \o published)

\* impl ApaFormatting for Book: citation_string
Book_apa_citation_string(book) ==
    LET authors == GenericAuthor_as_apa_string(book.author)
        authors_editors == IF authors # None THEN authors.val \o <<32>> ELSE <<>>
        published_title_version ==
            IF book.published = None /\ book.version = None
            THEN book.title \o <<46>>
            ELSE IF book.published = None
            THEN book.title \o <<32>>
                 \o GenericMediaVersion_as_apa_string(book.version.val) \o <<46>>
            ELSE IF book.version = None
            THEN <<40>> \o Itoa(year_of(book.published.val)) \o <<41, 46, 32>>
                 \o book.title \o <<46>>
            ELSE <<40>> \o Itoa(year_of(book.published.val)) \o <<41, 46, 32>>
                 \o book.title \o <<46, 32>>
                 \o GenericMediaVersion_as_apa_string(book.version.val) \o <<46>>
    IN  IF PersonPanics(book.author) THEN Panic
        ELSE Return(authors_editors \o published_title_version)

\* Book::title_as_apa_string: the title and the version, closed by a period
title_as_apa_string(book) ==
    IF book.version = None THEN book.title \o <<46>>
    ELSE book.title \o <<32>>
         \o GenericMediaVersion_as_apa_string(book.version.val) \o <<46>>

\* Book::title_as_ieee_string: the quoted chapter "in" the title, and the
\* version, closed by a period
title_as_ieee_string(book) ==
    (IF book.chapter = None THEN <<>>
     ELSE LEFT_QUOTE \o book.chapter.val \o <<44>> \o RIGHT_QUOTE \o <<32, 105, 110, 32>>)
    \o book.title
    \o (IF book.version = None THEN <<>>
        ELSE <<44, 32>> \o GenericMediaVersion_as_ieee_string(book.version.val))
    \o <<46>>

\* Vec::push of an optional part
Part(opt) == IF opt = None THEN <<>> ELSE <<opt.val>>

\* Citation::format_apa
Citation_format_apa_year_without_period(c) ==
    IF c.kind # "Book" THEN Panic
    ELSE LET book == c.book
             parts == Part(GenericAuthor_as_apa_string(book.author))
                      \o (IF book.published = None THEN <<>>
                          ELSE << <<40>> \o Itoa(year_of(book.published.val))
                                  \o <<41>> >>)
                      \o <<title_as_apa_string(book)>>
         IN  IF PersonPanics(book.author) THEN Panic
             ELSE Return(Join(parts, <<32>>))

Citation_format_apa(c) ==
    IF c.kind # "Book" THEN Panic
    ELSE LET book == c.book
             parts == Part(GenericAuthor_as_apa_string(book.author))
                      \o (IF book.published = None THEN <<>>
                          ELSE << <<40>> \o Itoa(year_of(book.published.val))
                                  \o <<41, 46>> >>)
                      \o <<title_as_apa_string(book)>>
         IN  IF PersonPanics(book.author) THEN Panic
             ELSE Return(Join(parts, <<32>>))

\* Citation::format_ieee
Citation_format_ieee(c) ==
    IF c.kind # "Book" THEN Panic
    ELSE LET book == c.book
             parts == Part(GenericAuthor_as_ieee_string(book.author))
                      \o <<title_as_ieee_string(book)>>
                      \o (IF book.published = None THEN <<>>
                          ELSE <<IeeeDatePart(book.published.val) \o <<46>> >>)
         IN  IF PersonPanics(book.author) \/ DatePanics(book.published) THEN Panic
             ELSE Return(Join(parts, <<32>>))

\* "A Great Paper"
A_GREAT_PAPER == <<65, 32, 71, 114, 101, 97, 116, 32, 80, 97, 112, 101, 114>>

\* the authors of the books: J Smith, Humberto Fuentes, Isabel Popov, in turn
BookPerson(i) ==
    IF i % 3 = 1 THEN from_first_last(<<74>>, SMITH).val
    ELSE IF i % 3 = 2 THEN from_first_last(<<72, 117, 109, 98, 101, 114, 116, 111>>, <<70, 117, 101, 110, 116, 101, 115>>).val
    ELSE from_first_last(<<73, 115, 97, 98, 101, 108>>, <<80, 111, 112, 111, 118>>).val

MaxBookAuthors == 3     \* longest list of persons of a book

BookAuthors ==
    {[tag |-> "Persons", persons |-> [i \in 1..n |-> BookPerson(i)]] :
        n \in 0..MaxBookAuthors}
    \cup {[tag |-> "Organization", name |-> <<73, 69, 69, 69>>]}

\* no date, 2023, May 2023, 2023-01-01
BookDates ==
    {None, Some(from_year(2023)), Some(from_year_month(2023, 5)),
     Some(from_year_month_day(2023, 1, 1).val)}

\* no chapter, "Intro"
BookChapters == {None, Some(<<73, 110, 116, 114, 111>>)}

\* no version, 2nd ed., v1.0
BookVersions == {None, Some(Edition(2)), Some(SemVerVersion(from_major_minor(1, 0)))}

\* no DOI, "10.1/x"
BookDois == {None, Some(<<49, 48, 46, 49, 47, 120>>)}

\* no pages, pages 1 to 9
BookPages == {None, Some([start |-> 1, end |-> 9])}

\* the values of struct Book
Books ==
    {[id |-> <<97>>, published |-> d, author |-> a, title |-> A_GREAT_PAPER,
      chapter |-> ch, version |-> v, doi |-> doi, pages |-> pg] :
        d \in BookDates, a \in BookAuthors, ch \in BookChapters,
        v \in BookVersions, doi \in BookDois, pg \in BookPages}

\* Citation::Book(book)
CitationBook(book) == [kind |-> "Book", book |-> book]

BookInit ==
    /\ bookIn \in Books
    /\ bookOut = None

CallFormatApa ==
    /\ bookOut' = Some([fn |-> "format_apa",
                        out |-> Citation_format_apa(CitationBook(bookIn))])
    /\ UNCHANGED bookIn

CallFormatIeee ==
    /\ bookOut' = Some([fn |-> "format_ieee",
                        out |-> Citation_format_ieee(CitationBook(bookIn))])
    /\ UNCHANGED bookIn

CallApaCitationString ==
    /\ bookOut' = Some([fn |-> "ApaFormatting::citation_string",
                        out |-> Book_apa_citation_string(bookIn)])
    /\ UNCHANGED bookIn

CallIeeeCitationString ==
    /\ bookOut' = Some([fn |-> "IeeeFormatting::citation_string",
                        out |-> Book_ieee_citation_string(bookIn)])
    /\ UNCHANGED bookIn

----------------------------------------------------------------------------
(* api/date.rs: AccessDate *)

\* AccessDate::from(NaiveDate::from_ymd_opt(year, month, day).unwrap())
AccessDateFrom(year, month, day) == [year |-> year, month |-> month, day |-> day]

\* AccessDate::fmt_for_ieee_citation
AccessDate_fmt_for_ieee_citation(a) ==
    ieee_abbreviated_month_name(a.month) \o <<32>> \o Itoa(a.day)
    \o <<44, 32>> \o Itoa(a.year)

\* 2014-04-16, 2025-10-01
AccessDates == {AccessDateFrom(2014, 4, 16), AccessDateFrom(2025, 10, 1)}

----------------------------------------------------------------------------
(* api/media/online_manual.rs: OnlineManual *)

\* the variants of OnlineManualAvailability
NotAvailable == [tag |-> "NotAvailable"]

AvailableDOI(doi) == [tag |-> "DOI", val |-> doi]

AvailableURL(url) == [tag |-> "URL", val |-> url]

LibraryDatabaseProvider(name) == [tag |-> "LibraryDatabaseProvider", val |-> name]

\* the arms of the match on available_at that are todo!()
AvailabilityTodo(available_at) == available_at.tag \in {"DOI", "LibraryDatabaseProvider"}

ACCESSED_ ==
    <<65, 99, 99, 101, 115, 115, 101, 100, 58, 32>>  \* "Accessed: "

ONLINE_ ==
    <<46, 32, 91, 79, 110, 108, 105, 110, 101, 93, 46>>  \* ". [Online]."

AVAILABLE_ ==
    <<65, 118, 97, 105, 108, 97, 98, 108, 101, 58, 32>>  \* "Available: "

\* impl IeeeFormatting for OnlineManual: citation_string
OnlineManual_ieee_citation_string(man) ==
    LET author == GenericAuthor_as_ieee_string(man.author)
        parts ==
            (IF author # None THEN <<author.val \o <<46>> >> ELSE <<>>)
            \o (IF man.version # None
                THEN <<man.title \o <<32>>
                       \o GenericMediaVersion_as_ieee_string(man.version.val) \o <<46>> >>
                ELSE <<man.title \o <<46>> >>)
            \o (IF man.published # None
                THEN << <<40>> \o fmt_for_apa_citation(man.published.val) \o <<41, 46>> >>
                ELSE <<>>)
            \o <<ACCESSED_ \o AccessDate_fmt_for_ieee_citation(man.accessed) \o ONLINE_>>
            \o (IF man.available_at.tag = "URL"
                THEN <<AVAILABLE_ \o man.available_at.val>>
                ELSE <<>>)
    IN  IF PersonPanics(man.author) \/ AvailabilityTodo(man.available_at) THEN Panic
        ELSE Return(Join(parts, <<32>>))

\* impl ApaFormatting for OnlineManual: citation_string
OnlineManual_apa_citation_string(man) ==
    LET author == GenericAuthor_as_apa_string(man.author)
        parts ==
            (IF author # None THEN <<author.val \o <<46>> >> ELSE <<>>)
            \o (IF man.published # None
                THEN << <<40>> \o fmt_for_apa_citation(man.published.val) \o <<41, 46>> >>
                ELSE <<>>)
            \o <<man.title \o <<46>> >>
            \o (IF man.available_at.tag = "URL" THEN <<man.available_at.val>> ELSE <<>>)
    IN  IF PersonPanics(man.author) \/ AvailabilityTodo(man.available_at) THEN Panic
        ELSE Return(Join(parts, <<32>>))

\* "Manual"
MANUAL_TITLE == <<77, 97, 110, 117, 97, 108>>

\* "http://x/m"
MANUAL_URL == <<104, 116, 116, 112, 58, 47, 47, 120, 47, 109>>

\* the authors of a Book, and a list long enough for "et al." in IEEE
ManualAuthors ==
    BookAuthors
    \cup {[tag |-> "Persons",
           persons |-> [i \in 1..(IEEE_ACADEMIC_ET_AL_CUTOFF + 1) |-> BookPerson(i)]]}

\* not available, DOI "10.1/x", the URL, provider "JSTOR"
Availabilities ==
    {NotAvailable, AvailableDOI(<<49, 48, 46, 49, 47, 120>>), AvailableURL(MANUAL_URL),
     LibraryDatabaseProvider(<<74, 83, 84, 79, 82>>)}

\* the values of struct OnlineManual
OnlineManuals ==
    {[id |-> <<97>>, published |-> d, author |-> a, title |-> MANUAL_TITLE,
      version |-> v, available_at |-> av, accessed |-> acc] :
        d \in BookDates, a \in ManualAuthors, v \in BookVersions,
        av \in Availabilities, acc \in AccessDates}

\* Citation::OnlineManual(online_manual)
CitationOnlineManual(man) == [kind |-> "OnlineManual", online_manual |-> man]

ManualInit ==
    /\ manIn \in OnlineManuals
    /\ manOut = None

CallManualIeee ==
    /\ manOut' = Some([fn |-> "IeeeFormatting::citation_string",
                       out |-> OnlineManual_ieee_citation_string(manIn)])
    /\ UNCHANGED manIn

CallManualApa ==
    /\ manOut' = Some([fn |-> "ApaFormatting::citation_string",
                       out |-> OnlineManual_apa_citation_string(manIn)])
    /\ UNCHANGED manIn

CallManualFormatIeee ==
    /\ manOut' = Some([fn |-> "format_ieee",
                       out |-> Citation_format_ieee(CitationOnlineManual(manIn))])
    /\ UNCHANGED manIn

CallManualFormatApa ==
    /\ manOut' = Some([fn |-> "format_apa",
                       out |-> Citation_format_apa(CitationOnlineManual(manIn))])
    /\ UNCHANGED manIn

----------------------------------------------------------------------------
(* api/media/online_video.rs: OnlineVideo *)

ONLINE_VIDEO_ ==
    <<46, 32, 91, 79, 110, 108, 105, 110, 101, 32, 86, 105, 100, 101, 111, 93, 46>>  \* ". [Online Video]."

VIDEO_YOUTUBE_ ==
    <<32, 91, 86, 105, 100, 101, 111, 93, 46, 32, 89, 111, 117, 84, 117, 98, 101, 46>>  \* " [Video]. YouTube."

RETRIEVED_ ==
    <<82, 101, 116, 114, 105, 101, 118, 101, 100, 32>>  \* "Retrieved "

FROM_ ==
    <<44, 32, 102, 114, 111, 109, 32>>  \* ", from "

\* impl IeeeFormatting for OnlineVideo: citation_string
OnlineVideo_ieee_citation_string_without_available(video) ==
    IF video.variant = "Generic" THEN Panic
    ELSE LET parts ==
                 <<video.channel \o <<46>>, video.title \o <<46>> >>
                 \o (IF video.published # None
                     THEN << <<40>> \o fmt_for_ieee_citation(video.published.val)
                             \o <<41, 46>> >>
                     ELSE <<>>)
                 \o <<ACCESSED_ \o ieee_abbreviated_month_name(video.accessed.month)
                      \o <<32>> \o Itoa(video.accessed.day) \o <<44, 32>>
                      \o Itoa(video.accessed.year) \o ONLINE_VIDEO_>>
                 \o (IF video.url # None THEN <<video.url.val>> ELSE <<>>)
         IN  Return(Join(parts, <<32>>))

OnlineVideo_ieee_citation_string(video) ==
    IF video.variant = "Generic" THEN Panic
    ELSE LET parts ==
                 <<video.channel \o <<46>>, video.title \o <<46>> >>
                 \o (IF video.published # None
                     THEN << <<40>> \o fmt_for_ieee_citation(video.published.val)
                             \o <<41, 46>> >>
                     ELSE <<>>)
                 \o <<ACCESSED_ \o ieee_abbreviated_month_name(video.accessed.month)
                      \o <<32>> \o Itoa(video.accessed.day) \o <<44, 32>>
                      \o Itoa(video.accessed.year) \o ONLINE_VIDEO_>>
                 \o (IF video.url # None THEN <<AVAILABLE_ \o video.url.val>> ELSE <<>>)
         IN  Return(Join(parts, <<32>>))

\* impl ApaFormatting for OnlineVideo: citation_string
OnlineVideo_apa_citation_string(video) ==
    IF video.variant = "Generic" THEN Panic
    ELSE LET retrieved ==
                 RETRIEVED_ \o MonthName(video.accessed.month) \o <<32>>
                 \o Itoa(video.accessed.day) \o <<44, 32>> \o Itoa(video.accessed.year)
             parts ==
                 <<video.channel \o <<46>> >>
                 \o (IF video.published # None
                     THEN << <<40>> \o fmt_for_apa_citation(video.published.val)
                             \o <<41, 46>> >>
                     ELSE <<>>)
                 \o <<video.title \o VIDEO_YOUTUBE_>>
                 \o (IF video.url # None
                     THEN <<retrieved \o FROM_ \o video.url.val>>
                     ELSE <<retrieved \o <<46>> >>)
         IN  Return(Join(parts, <<32>>))

\* "Tribute"
VIDEO_TITLE == <<84, 114, 105, 98, 117, 116, 101>>

\* "scorpiopede"
CHANNEL == <<115, 99, 111, 114, 112, 105, 111, 112, 101, 100, 101>>

\* "https://y/v"
VIDEO_URL == <<104, 116, 116, 112, 115, 58, 47, 47, 121, 47, 118>>

\* no date, 2009, April 2009, 2009-04-04
VideoDates ==
    {None, Some(from_year(2009)), Some(from_year_month(2009, 4)),
     Some(from_year_month_day(2009, 4, 4).val)}

\* the values of enum OnlineVideo
OnlineVideos ==
    {[variant |-> "Generic", id |-> <<97>>, published |-> d, title |-> VIDEO_TITLE,
      url |-> u, accessed |-> acc] :
        d \in VideoDates, u \in {None, Some(VIDEO_URL)}, acc \in AccessDates}
    \cup
    {[variant |-> "YouTube", id |-> <<97>>, published |-> d, title |-> VIDEO_TITLE,
      url |-> u, channel |-> CHANNEL, accessed |-> acc] :
        d \in VideoDates, u \in {None, Some(VIDEO_URL)}, acc \in AccessDates}

\* Citation::OnlineVideo(online_video)
CitationOnlineVideo(video) == [kind |-> "OnlineVideo", online_video |-> video]

VideoInit ==
    /\ vidIn \in OnlineVideos
    /\ vidOut = None

CallVideoIeee ==
    /\ vidOut' = Some([fn |-> "IeeeFormatting::citation_string",
                       out |-> OnlineVideo_ieee_citation_string(vidIn)])
    /\ UNCHANGED vidIn

CallVideoApa ==
    /\ vidOut' = Some([fn |-> "ApaFormatting::citation_string",
                       out |-> OnlineVideo_apa_citation_string(vidIn)])
    /\ UNCHANGED vidIn

CallVideoFormatIeee ==
    /\ vidOut' = Some([fn |-> "format_ieee",
                       out |-> Citation_format_ieee(CitationOnlineVideo(vidIn))])
    /\ UNCHANGED vidIn

CallVideoFormatApa ==
    /\ vidOut' = Some([fn |-> "format_apa",
                       out |-> Citation_format_apa(CitationOnlineVideo(vidIn))])
    /\ UNCHANGED vidIn

----------------------------------------------------------------------------
(* api/media/conference_paper.rs: the conference kinds of Citation *)

\* the values of struct ConferencePaperOnline and ConferenceProceedingsOnline,
\* which have the same fields; "T" held at "C" on 2024-05-31
ConferenceRecords ==
    {[id |-> <<97>>, published |-> d, title |-> <<84>>, venue |-> v, volume |-> vol,
      number |-> None, conference_name |-> <<67>>,
      conference_date |-> AccessDateFrom(2024, 5, 31)] :
        d \in VideoDates, v \in {None, Some(<<86>>)}, vol \in {None, Some(<<49>>)}}

\* Citation::ConferencePaperOnline(paper), Citation::ConferenceProceedingsOnline(p)
ConferenceCitations ==
    {[kind |-> "ConferencePaperOnline", paper |-> r] : r \in ConferenceRecords}
    \cup {[kind |-> "ConferenceProceedingsOnline", proceedings |-> r] :
            r \in ConferenceRecords}

ConfInit ==
    /\ confIn \in ConferenceCitations
    /\ confOut = None

CallConfFormatIeee ==
    /\ confOut' = Some([fn |-> "format_ieee", out |-> Citation_format_ieee(confIn)])
    /\ UNCHANGED confIn

CallConfFormatApa ==
    /\ confOut' = Some([fn |-> "format_apa", out |-> Citation_format_apa(confIn)])
    /\ UNCHANGED confIn

----------------------------------------------------------------------------
(* Specifications: one per component, the other components stay idle *)

BibIdle == citations = <<>> /\ op = "new" /\ arg = None /\ result = None /\ prev = <<>>

OrdIdle == da = None /\ db = None /\ dc = None /\ ord = None

CtorIdle == dateIn = None /\ dateOut = None /\ dateStr = None

NameIdle == nameIn = None /\ nameOut = None /\ nameStr = None

AuthorIdle == authorIn = None /\ authorOut = None

VerIdle == verIn = None /\ verOut = None

BookIdle == bookIn = None /\ bookOut = None

ManualIdle == manIn = None /\ manOut = None

VideoIdle == vidIn = None /\ vidOut = None

ConfIdle == confIn = None /\ confOut = None

OtherMediaIdle == ManualIdle /\ VideoIdle /\ ConfIdle

Init == BibInit /\ OrdIdle /\ CtorIdle /\ NameIdle /\ AuthorIdle /\ VerIdle /\ BookIdle /\ OtherMediaIdle

Next ==
    \/ \E c \in Citation : add_citation(c) /\ UNCHANGED <<ordVars, ctorVars, nameVars, authorVars, verVars, bookVars, otherMediaVars>>
    \/ \E id \in Ids : get_citation(id) /\ UNCHANGED <<ordVars, ctorVars, nameVars, authorVars, verVars, bookVars, otherMediaVars>>
    \/ sort_by_author /\ UNCHANGED <<ordVars, ctorVars, nameVars, authorVars, verVars, bookVars, otherMediaVars>>
    \/ sort_by_year /\ UNCHANGED <<ordVars, ctorVars, nameVars, authorVars, verVars, bookVars, otherMediaVars>>

Spec == Init /\ [][Next]_vars

InitOrd == OrdInit /\ BibIdle /\ CtorIdle /\ NameIdle /\ AuthorIdle /\ VerIdle /\ BookIdle /\ OtherMediaIdle

NextOrd ==
    Compare /\ UNCHANGED <<bibVars, ctorVars, nameVars, authorVars, verVars, bookVars, otherMediaVars>>

SpecOrd == InitOrd /\ [][NextOrd]_vars

InitCtor == CtorInit /\ BibIdle /\ OrdIdle /\ NameIdle /\ AuthorIdle /\ VerIdle /\ BookIdle /\ OtherMediaIdle

NextCtor ==
    \/ CallFromYear /\ UNCHANGED <<bibVars, ordVars, nameVars, authorVars, verVars, bookVars, otherMediaVars>>
    \/ CallFromYearMonth /\ UNCHANGED <<bibVars, ordVars, nameVars, authorVars, verVars, bookVars, otherMediaVars>>
    \/ CallFromYearMonthDay /\ UNCHANGED <<bibVars, ordVars, nameVars, authorVars, verVars, bookVars, otherMediaVars>>
    \/ CallFmtIeee /\ UNCHANGED <<bibVars, ordVars, nameVars, authorVars, verVars, bookVars, otherMediaVars>>
    \/ CallFmtApa /\ UNCHANGED <<bibVars, ordVars, nameVars, authorVars, verVars, bookVars, otherMediaVars>>

SpecCtor == InitCtor /\ [][NextCtor]_vars

InitName == NameInit /\ BibIdle /\ OrdIdle /\ CtorIdle /\ AuthorIdle /\ VerIdle /\ BookIdle /\ OtherMediaIdle

NextName ==
    \/ CallFromLast /\ UNCHANGED <<bibVars, ordVars, ctorVars, authorVars, verVars, bookVars, otherMediaVars>>
    \/ CallFromFirstLast /\ UNCHANGED <<bibVars, ordVars, ctorVars, authorVars, verVars, bookVars, otherMediaVars>>
    \/ CallFromFirstMiddleLast /\ UNCHANGED <<bibVars, ordVars, ctorVars, authorVars, verVars, bookVars, otherMediaVars>>
    \/ RenderNameIeee /\ UNCHANGED <<bibVars, ordVars, ctorVars, authorVars, verVars, bookVars, otherMediaVars>>
    \/ RenderNameApa /\ UNCHANGED <<bibVars, ordVars, ctorVars, authorVars, verVars, bookVars, otherMediaVars>>

SpecName == InitName /\ [][NextName]_vars

\* the public constructors: of a PublishDate, or of a PersonName
InitBuilt ==
    /\ (CtorInit /\ NameIdle) \/ (NameInit /\ CtorIdle)
    /\ BibIdle /\ OrdIdle /\ AuthorIdle /\ VerIdle /\ BookIdle /\ OtherMediaIdle

NextBuilt ==
    \/ dateIn # None /\ NextCtor
    \/ nameIn # None /\ NextName

SpecBuilt == InitBuilt /\ [][NextBuilt]_vars

InitAuthor == AuthorInit /\ BibIdle /\ OrdIdle /\ CtorIdle /\ NameIdle /\ VerIdle /\ BookIdle /\ OtherMediaIdle

NextAuthor ==
    \/ CallGenericIeee /\ UNCHANGED <<bibVars, ordVars, ctorVars, nameVars, verVars, bookVars, otherMediaVars>>
    \/ CallGenericApa /\ UNCHANGED <<bibVars, ordVars, ctorVars, nameVars, verVars, bookVars, otherMediaVars>>
    \/ CallAcademicIeee /\ UNCHANGED <<bibVars, ordVars, ctorVars, nameVars, verVars, bookVars, otherMediaVars>>
    \/ CallAcademicApa /\ UNCHANGED <<bibVars, ordVars, ctorVars, nameVars, verVars, bookVars, otherMediaVars>>

SpecAuthor == InitAuthor /\ [][NextAuthor]_vars

InitVersion == VersionInit /\ BibIdle /\ OrdIdle /\ CtorIdle /\ NameIdle /\ AuthorIdle /\ BookIdle /\ OtherMediaIdle

NextVersion ==
    \/ CallVersionIeee /\ UNCHANGED <<bibVars, ordVars, ctorVars, nameVars, authorVars, bookVars, otherMediaVars>>
    \/ CallVersionApa /\ UNCHANGED <<bibVars, ordVars, ctorVars, nameVars, authorVars, bookVars, otherMediaVars>>

SpecVersion == InitVersion /\ [][NextVersion]_vars

InitBook == BookInit /\ BibIdle /\ OrdIdle /\ CtorIdle /\ NameIdle /\ AuthorIdle /\ VerIdle /\ OtherMediaIdle

NextBook ==
    \/ CallFormatApa /\ UNCHANGED <<bibVars, ordVars, ctorVars, nameVars, authorVars, verVars, otherMediaVars>>
    \/ CallFormatIeee /\ UNCHANGED <<bibVars, ordVars, ctorVars, nameVars, authorVars, verVars, otherMediaVars>>
    \/ CallApaCitationString /\ UNCHANGED <<bibVars, ordVars, ctorVars, nameVars, authorVars, verVars, otherMediaVars>>
    \/ CallIeeeCitationString /\ UNCHANGED <<bibVars, ordVars, ctorVars, nameVars, authorVars, verVars, otherMediaVars>>

SpecBook == InitBook /\ [][NextBook]_vars

\* one citation of any media kind is formatted
MediaInit ==
    \/ BookInit /\ ManualIdle /\ VideoIdle /\ ConfIdle
    \/ ManualInit /\ BookIdle /\ VideoIdle /\ ConfIdle
    \/ VideoInit /\ BookIdle /\ ManualIdle /\ ConfIdle
    \/ ConfInit /\ BookIdle /\ ManualIdle /\ VideoIdle

InitMedia == MediaInit /\ BibIdle /\ OrdIdle /\ CtorIdle /\ NameIdle /\ AuthorIdle /\ VerIdle

NextManual ==
    \/ CallManualIeee /\ UNCHANGED <<bibVars, ordVars, ctorVars, nameVars, authorVars, verVars, bookVars, vidVars, confVars>>
    \/ CallManualApa /\ UNCHANGED <<bibVars, ordVars, ctorVars, nameVars, authorVars, verVars, bookVars, vidVars, confVars>>
    \/ CallManualFormatIeee /\ UNCHANGED <<bibVars, ordVars, ctorVars, nameVars, authorVars, verVars, bookVars, vidVars, confVars>>
    \/ CallManualFormatApa /\ UNCHANGED <<bibVars, ordVars, ctorVars, nameVars, authorVars, verVars, bookVars, vidVars, confVars>>

NextVideo ==
    \/ CallVideoIeee /\ UNCHANGED <<bibVars, ordVars, ctorVars, nameVars, authorVars, verVars, bookVars, manVars, confVars>>
    \/ CallVideoApa /\ UNCHANGED <<bibVars, ordVars, ctorVars, nameVars, authorVars, verVars, bookVars, manVars, confVars>>
    \/ CallVideoFormatIeee /\ UNCHANGED <<bibVars, ordVars, ctorVars, nameVars, authorVars, verVars, bookVars, manVars, confVars>>
    \/ CallVideoFormatApa /\ UNCHANGED <<bibVars, ordVars, ctorVars, nameVars, authorVars, verVars, bookVars, manVars, confVars>>

NextConf ==
    \/ CallConfFormatIeee /\ UNCHANGED <<bibVars, ordVars, ctorVars, nameVars, authorVars, verVars, bookVars, manVars, vidVars>>
    \/ CallConfFormatApa /\ UNCHANGED <<bibVars, ordVars, ctorVars, nameVars, authorVars, verVars, bookVars, manVars, vidVars>>

NextMedia ==
    \/ bookIn # None /\ NextBook
    \/ manIn # None /\ NextManual
    \/ vidIn # None /\ NextVideo
    \/ confIn # None /\ NextConf

SpecMedia == InitMedia /\ [][NextMedia]_vars

----------------------------------------------------------------------------
(* Properties of the Bibliography, checked under Spec *)

\* the ids a sequence of citations holds
HeldIds(cs) == {cs[i].id : i \in 1..Len(cs)}

\* how many times c occurs in cs
Count(cs, c) == Cardinality({i \in 1..Len(cs) : cs[i] = c})

\* cs2 is a rearrangement of cs1
IsPermutation(cs1, cs2) ==
    /\ Len(cs1) = Len(cs2)
    /\ \A i \in 1..Len(cs1) : Count(cs1, cs1[i]) = Count(cs2, cs1[i])

\* the year a citation is sorted by: no date counts as year zero
YearKey(c) == IF c.year = None THEN 0 ELSE c.year.val

\* the failure add_citation reports for an id that is already held
DuplicateFailure(id) == Err([kind |-> "InvalidFormat", exists |-> id])

DuplicateAdd == op = "add_citation" /\ arg.val.id \in HeldIds(prev)

\* C1 as stated: an add_citation whose id is already held returns the
\* duplicate-identifier failure and leaves the bibliography as it was.
C1_DuplicateAlwaysReported ==
    DuplicateAdd => (result = DuplicateFailure(arg.val.id) /\ citations = prev)

\* C1 amended: an add_citation whose id is already held fails and leaves the
\* bibliography as it was; the failure is the duplicate-identifier failure
\* when the citation has a title and an author, and MissingField naming the
\* first empty one of the two otherwise.
C1_DuplicateRejected ==
    DuplicateAdd =>
        /\ citations = prev
        /\ result.tag = "Err"
        /\ (arg.val.title # EmptyStr /\ arg.val.authors # <<>>
                => result = DuplicateFailure(arg.val.id))
        /\ (arg.val.title = EmptyStr
                => result = Err([kind |-> "MissingField", field |-> "title"]))
        /\ (arg.val.title # EmptyStr /\ arg.val.authors = <<>>
                => result = Err([kind |-> "MissingField", field |-> "authors"]))

C1_Witness ==
    /\ DuplicateAdd
    /\ Len(prev) >= 2
    /\ result = DuplicateFailure(arg.val.id)
    /\ arg.val \notin {prev[i] : i \in 1..Len(prev)}

\* C2: in every state reached from the empty bibliography by add_citation,
\* sort_by_author and sort_by_year, no two held citations have the same id.
C2_UniqueIds ==
    \A i, j \in 1..Len(citations) : i # j => citations[i].id # citations[j].id

C2_Witness ==
    /\ op \in {"sort_by_author", "sort_by_year"}
    /\ Len(citations) >= 2
    /\ citations # prev

\* C3: a successful add_citation puts the new citation at the end and leaves
\* the citations held before unchanged and in their order.
C3_AddAppends ==
    (op = "add_citation" /\ result.tag = "Ok") => citations = Append(prev, arg.val)

C3_Witness ==
    /\ op = "add_citation"
    /\ result.tag = "Ok"
    /\ Len(prev) >= 2
    /\ citations[Len(citations)] = arg.val

\* C4: get_citation(id) returns the held citation with that id when there is
\* one, returns None when there is none, and leaves the bibliography as it was.
C4_GetCitation ==
    op = "get_citation" =>
        /\ citations = prev
        /\ (arg.val \in HeldIds(citations) =>
                /\ result.tag = "Some"
                /\ result.val.id = arg.val
                /\ \E i \in 1..Len(citations) : citations[i] = result.val)
        /\ (arg.val \notin HeldIds(citations) => result = None)

C4_Witness ==
    /\ op = "get_citation"
    /\ Len(citations) >= 2
    /\ result = Some(citations[1])

\* C5: sort_by_year leaves a permutation of the previous citations, in
\* non-increasing order of year, and citations of equal year keep the
\* relative order they had.
C5_SortByYear ==
    op = "sort_by_year" =>
        /\ IsPermutation(prev, citations)
        /\ \A i \in 1..(Len(citations) - 1) :
               YearKey(citations[i]) >= YearKey(citations[i + 1])
        /\ \A i, j \in 1..Len(prev) :
               (i < j /\ YearKey(prev[i]) = YearKey(prev[j])) =>
                   \E k, l \in 1..Len(citations) :
                       k < l /\ citations[k] = prev[i] /\ citations[l] = prev[j]

C5_Witness ==
    /\ op = "sort_by_year"
    /\ citations # prev
    /\ \E i, j \in 1..Len(citations) :
           i < j /\ citations[i].year = citations[j].year

\* C6 as stated: after sort_by_year every citation without a date comes after
\* every citation with a date, whatever the date.
C6_UndatedAfterEveryDated ==
    op = "sort_by_year" =>
        \A i, j \in 1..Len(citations) :
            (citations[i].year = None /\ citations[j].year # None) => j < i

\* C6 amended: after sort_by_year every citation without a date comes after
\* every citation whose year is greater than zero.
C6_UndatedAfterPositiveYears ==
    op = "sort_by_year" =>
        \A i, j \in 1..Len(citations) :
            (citations[i].year = None /\ citations[j].year # None
                /\ citations[j].year.val > 0) => j < i

C6_Witness ==
    /\ op = "sort_by_year"
    /\ \E i, j \in 1..Len(prev) :
           i < j /\ prev[i].year = None /\ prev[j].year # None /\ prev[j].year.val > 0

----------------------------------------------------------------------------
(* Properties of the PublishDate ordering, checked under SpecOrd *)

HasMonth(d) == d.tag \in {"YearMonth", "YearMonthDay"}

HasDay(d) == d.tag = "YearMonthDay"

\* the two dates agree on the month: both have none, or both have the same
SameMonth(a, b) ==
    \/ ~HasMonth(a) /\ ~HasMonth(b)
    \/ HasMonth(a) /\ HasMonth(b) /\ a.month = b.month

\* C7: cmp compares the years first; at equal year a date without month is
\* Less than a date with one, otherwise the months are compared; at equal year
\* and month a date without day is Less than a date with one, otherwise the
\* days are compared.  Year{2023} < YearMonth{2023, Feb} < YearMonthDay{2023,
\* Feb, 1}.
C7_CmpByPrecision ==
    ord # None =>
        LET ab == ord.val.ab IN
        /\ (da.year # db.year => ab = IntCmp(da.year, db.year))
        /\ (da.year = db.year /\ ~HasMonth(da) /\ HasMonth(db) => ab = "Less")
        /\ (da.year = db.year /\ HasMonth(da) /\ ~HasMonth(db) => ab = "Greater")
        /\ (da.year = db.year /\ HasMonth(da) /\ HasMonth(db) /\ da.month # db.month
                => ab = IntCmp(da.month, db.month))
        /\ (da.year = db.year /\ SameMonth(da, db) /\ ~HasDay(da) /\ HasDay(db)
                => ab = "Less")
        /\ (da.year = db.year /\ SameMonth(da, db) /\ HasDay(da) /\ ~HasDay(db)
                => ab = "Greater")
        /\ (da.year = db.year /\ SameMonth(da, db) /\ HasDay(da) /\ HasDay(db)
                => ab = IntCmp(da.day, db.day))
        /\ (da.year = db.year /\ SameMonth(da, db) /\ ~HasDay(da) /\ ~HasDay(db)
                => ab = "Equal")
        /\ (da = from_year(2023) /\ db = from_year_month(2023, 2) => ab = "Less")
        /\ (da = from_year_month(2023, 2) /\ db = YearMonthDay(2023, 2, 1)
                => ab = "Less")

C7_Witness ==
    /\ ord # None
    /\ da = from_year(2023)
    /\ db = from_year_month(2023, 2)
    /\ dc = YearMonthDay(2023, 2, 1)
    /\ ord.val.ab = "Less"
    /\ ord.val.bc = "Less"

LessOrEqual(o) == o \in {"Less", "Equal"}

\* C8: cmp is a total order on the PublishDate values: transitive,
\* antisymmetric (cmp(a, b) is the reverse of cmp(b, a)), and Equal exactly
\* for equal values.
C8_TotalOrder ==
    ord # None =>
        /\ ord.val.ba = Reverse(ord.val.ab)
        /\ (LessOrEqual(ord.val.ab) /\ LessOrEqual(ord.val.bc)
                => LessOrEqual(ord.val.ac))
        /\ (LessOrEqual(ord.val.ab) /\ LessOrEqual(ord.val.bc) /\ ord.val.ac = "Equal"
                => ord.val.ab = "Equal" /\ ord.val.bc = "Equal")
        /\ (ord.val.ab = "Equal" <=> ord.val.eq)
        /\ (ord.val.eq <=> da = db)

C8_Witness ==
    /\ ord # None
    /\ ord.val.ab = "Less"
    /\ ord.val.bc = "Less"
    /\ ord.val.ac = "Less"
    /\ da.year = dc.year
    /\ da.tag = "YearMonth"
    /\ db.tag = "YearMonthDay"
    /\ dc.tag = "YearMonth"

----------------------------------------------------------------------------
(* Properties of the PublishDate constructors, checked under SpecCtor *)

\* the number of days of a month of the Gregorian calendar
GregorianDays(year, month) ==
    IF month = 2
    THEN IF year % 400 = 0 \/ (year % 4 = 0 /\ year % 100 # 0) THEN 29 ELSE 28
    ELSE IF month \in {4, 6, 9, 11} THEN 30 ELSE 31

SupportedYear(year) == MIN_YEAR <= year /\ year <= MAX_YEAR

\* C9: for a year in the supported range, from_year_month_day succeeds exactly
\* when the day is one of 1 .. the number of days of the month, the last day
\* included, and fails with InvalidDayForMonth otherwise.
C9_EveryDayOfMonthAccepted ==
    (/\ dateOut # None
     /\ dateOut.val.ctor = "from_year_month_day"
     /\ SupportedYear(dateIn.year)) =>
        LET valid == 1 <= dateIn.day
                     /\ dateIn.day <= GregorianDays(dateIn.year, dateIn.month)
        IN  dateOut.val.ret =
                IF valid THEN Ok(YearMonthDay(dateIn.year, dateIn.month, dateIn.day))
                ELSE Err("InvalidDayForMonth")

----------------------------------------------------------------------------
(* Properties of the PersonName constructors, checked under SpecName *)

\* C10: each PersonName constructor fails with NameError::EmptyString when a
\* string it is given is empty, and otherwise returns the variant that stores
\* exactly the strings it is given.
C10_NameConstructors ==
    nameOut # None =>
        LET f == nameIn.first
            m == nameIn.middle
            l == nameIn.last
            ret == nameOut.val.ret
        IN
        /\ (nameOut.val.ctor = "from_last" =>
                ret = IF l = EmptyStr THEN Err("EmptyString")
                      ELSE Ok([tag |-> "SurnameOnly", surname |-> l]))
        /\ (nameOut.val.ctor = "from_first_last" =>
                ret = IF f = EmptyStr \/ l = EmptyStr THEN Err("EmptyString")
                      ELSE Ok([tag |-> "SurnameAndFirstName",
                               surname |-> l, first_name |-> f]))
        /\ (nameOut.val.ctor = "from_first_middle_last" =>
                ret = IF f = EmptyStr \/ m = EmptyStr \/ l = EmptyStr
                      THEN Err("EmptyString")
                      ELSE Ok([tag |-> "SurnameAndFirstNameAndMiddleName",
                               surname |-> l, first_name |-> f, middle_name |-> m]))

C10_Witness ==
    /\ nameOut # None
    /\ nameOut.val.ctor = "from_first_last"
    /\ nameOut.val.ret.tag = "Ok"
    /\ nameIn.first # nameIn.last
    /\ nameOut.val.ret.val.surname = nameIn.last

----------------------------------------------------------------------------
(* Properties of the PersonName renderings, checked under SpecName *)

\* g is the first grapheme of s: a non-empty prefix that starts a cluster,
\* takes in every combining mark that follows it and stops before the next
\* character that is not one
IsInitialOf(g, s) ==
    /\ Len(g) >= 1
    /\ Len(g) <= Len(s)
    /\ \A i \in 1..Len(g) : g[i] = s[i]
    /\ \A i \in 2..Len(g) : g[i] = 769
    /\ (Len(g) < Len(s) => s[Len(g) + 1] # 769)

InitialsOf(s) == {g \in {SubSeq(s, 1, k) : k \in 1..Len(s)} : IsInitialOf(g, s)}

\* C11: with initial = first grapheme of the component, as_ieee_string is
\* "<surname>", "<first-initial>. <surname>" or "<first-initial>.
\* <middle-initial>. <surname>" and as_apa_string is "<surname>", "<surname>,
\* <first-initial>." or "<surname>, <first-initial>. <middle-initial>.",
\* according to the variant of the name.
C11_NameRendering ==
    nameStr # None =>
        LET p == nameOut.val.ret.val
            ieee == nameStr.val.style = "ieee"
            out == nameStr.val.out
        IN
        /\ (p.tag = "SurnameOnly" => out = Return(p.surname))
        /\ (p.tag = "SurnameAndFirstName" =>
                \E f \in InitialsOf(p.first_name) :
                    out = IF ieee THEN Return(f \o <<46, 32>> \o p.surname)
                          ELSE Return(p.surname \o <<44, 32>> \o f \o <<46>>))
        /\ (p.tag = "SurnameAndFirstNameAndMiddleName" =>
                \E f \in InitialsOf(p.first_name), m \in InitialsOf(p.middle_name) :
                    out = IF ieee
                          THEN Return(f \o <<46, 32>> \o m \o <<46, 32>> \o p.surname)
                          ELSE Return(p.surname \o <<44, 32>> \o f \o <<46, 32>>
                                      \o m \o <<46>>))

C11_Witness ==
    /\ nameStr # None
    /\ nameStr.val.style = "ieee"
    /\ nameOut.val.ret.val.tag = "SurnameAndFirstNameAndMiddleName"
    /\ nameOut.val.ret.val.first_name = <<74, 769>>
    /\ nameOut.val.ret.val.middle_name = <<83, 74>>
    /\ nameStr.val.out = Return(<<74, 769, 46, 32, 83, 46, 32>> \o nameOut.val.ret.val.surname)

----------------------------------------------------------------------------
(* Properties of the author renderings, checked under SpecAuthor *)

\* the rendering of one person in the style of the last call
StyleName(p) ==
    IF authorOut.val.style = "ieee" THEN PersonName_as_ieee_string(p).val
    ELSE PersonName_as_apa_string(p).val

GenericCall == authorOut # None /\ authorOut.val.type = "GenericAuthor"

\* C12: GenericAuthor rendering gives None for an empty list of persons and
\* exactly the person's rendered name for a list of one person, in both styles.
C12_EmptyAndSingle ==
    (GenericCall /\ authorIn.tag = "Persons") =>
        /\ (Len(authorIn.persons) = 0 => authorOut.val.out = Return(None))
        /\ (Len(authorIn.persons) = 1 =>
                authorOut.val.out = Return(Some(StyleName(authorIn.persons[1]))))

C12_Witness ==
    /\ GenericCall
    /\ authorOut.val.style = "ieee"
    /\ authorIn.tag = "Persons"
    /\ Len(authorIn.persons) = 1
    /\ authorOut.val.out = Return(Some(<<74, 46, 32, 83, 109, 105, 116, 104>>))

\* C13: for exactly two persons A and B, GenericAuthor renders "<A> and <B>"
\* in IEEE and "<A> & <B>" in APA, with no comma before "and" or "&".
C13_TwoPersons ==
    (GenericCall /\ authorIn.tag = "Persons" /\ Len(authorIn.persons) = 2) =>
        authorOut.val.out =
            Return(Some(StyleName(authorIn.persons[1])
                        \o (IF authorOut.val.style = "ieee" THEN <<32, 97, 110, 100, 32>> ELSE <<32, 38, 32>>)
                        \o StyleName(authorIn.persons[2])))

\* the names in order, ", " between them and ", and " before the last
OxfordList(names) ==
    LET upTo[n \in 1..Len(names)] ==
            IF n = 1 THEN names[1]
            ELSE upTo[n - 1]
                 \o (IF n = Len(names) THEN <<44, 32, 97, 110, 100, 32>> ELSE <<44, 32>>)
                 \o names[n]
    IN  upTo[Len(names)]

C15_ApaEtAl ==
    (/\ GenericCall
     /\ authorOut.val.style = "apa"
     /\ authorIn.tag = "Persons"
     /\ Len(authorIn.persons) > 2) =>
        authorOut.val.out =
            Return(Some(PersonName_as_apa_string(authorIn.persons[1]).val \o <<32, 101, 116, 32, 97, 108, 46>>))

OrgCall == authorOut # None /\ authorIn.tag = "Organization"

\* C16 as stated: an Organization renders to exactly its name in both styles.
C16_OrgNameUnmodified ==
    OrgCall => authorOut.val.out = Return(Some(authorIn.name))

\* C16 amended: an Organization renders to exactly its name in APA, and to
\* its name followed by one comma in IEEE, for GenericAuthor and
\* AcademicAuthor alike.
C16_OrgNameIeeeComma ==
    OrgCall =>
        authorOut.val.out =
            IF authorOut.val.style = "apa" THEN Return(Some(authorIn.name))
            ELSE Return(Some(authorIn.name \o <<44>>))

C16_Witness ==
    /\ OrgCall
    /\ authorOut.val.type = "GenericAuthor"
    /\ authorOut.val.style = "ieee"
    /\ authorOut.val.out = Return(Some(<<73, 69, 69, 69, 44>>))

----------------------------------------------------------------------------
(* Properties of the PublishDate renderings, checked under SpecCtor *)

\* three letters of the month's name and a period, "May" without period
AbbrevMonth(month) ==
    IF Len(MonthName(month)) = 3 THEN MonthName(month)
    ELSE SubSeq(MonthName(month), 1, 3) \o <<46>>

\* C17: fmt_for_ieee_citation gives "<year>", "<AbbrevMonth>, <year>" or
\* "<AbbrevMonth> <day>, <year>" and fmt_for_apa_citation gives "<year>",
\* "<year>, <MonthFullName>" or "<year>, <MonthFullName> <day>" for Year,
\* YearMonth and YearMonthDay; AbbrevMonth is three letters and a period,
\* except "May".
C17_DateRendering ==
    dateStr # None =>
        LET d == dateOut.val.ret.val
            str == dateStr.val.str
            ieee == dateStr.val.style = "ieee"
        IN
        /\ (d.tag = "Year" => str = Itoa(d.year))
        /\ (d.tag = "YearMonth" =>
                str = IF ieee THEN AbbrevMonth(d.month) \o <<44, 32>> \o Itoa(d.year)
                      ELSE Itoa(d.year) \o <<44, 32>> \o MonthName(d.month))
        /\ (d.tag = "YearMonthDay" =>
                str = IF ieee
                      THEN AbbrevMonth(d.month) \o <<32>> \o Itoa(d.day)
                           \o <<44, 32>> \o Itoa(d.year)
                      ELSE Itoa(d.year) \o <<44, 32>> \o MonthName(d.month)
                           \o <<32>> \o Itoa(d.day))

C17_Witness ==
    /\ dateStr # None
    /\ dateStr.val.style = "ieee"
    /\ dateOut.val.ret.val = YearMonthDay(2023, 5, 14)
    /\ dateStr.val.str = <<77, 97, 121, 32, 49, 52, 44, 32, 50, 48, 50, 51>>

----------------------------------------------------------------------------
(* Properties of the version renderings, checked under SpecVersion *)

\* the number of parentheses in a string
Parens(str) == Cardinality({k \in 1..Len(str) : str[k] \in {40, 41}})

\* the English ordinal suffix of a number
OrdinalSuffix(n) ==
    IF (n % 100) \in 11..13 THEN <<116, 104>>
    ELSE IF n % 10 = 1 THEN <<115, 116>>
    ELSE IF n % 10 = 2 THEN <<110, 100>>
    ELSE IF n % 10 = 3 THEN <<114, 100>>
    ELSE <<116, 104>>

IsPrefix(pre, str) == Len(pre) <= Len(str) /\ SubSeq(str, 1, Len(pre)) = pre

\* the numbers of a semantic version joined by periods
Dotted(sem) ==
    Join(IF sem.tag = "Major" THEN <<Itoa(sem.major)>>
         ELSE IF sem.tag = "MajorMinor" THEN <<Itoa(sem.major), Itoa(sem.minor)>>
         ELSE <<Itoa(sem.major), Itoa(sem.minor), Itoa(sem.patch)>>, <<46>>)

\* C18: the APA rendering of every version descriptor is wrapped in one pair
\* of parentheses and the IEEE rendering contains no parentheses; a semantic
\* version renders as "v" and its dotted numbers; an edition renders its
\* number with the English ordinal suffix.
C18_VersionRendering ==
    verOut # None =>
        LET str == verOut.val.str
            apa == verOut.val.style = "apa"
            inner == IF apa THEN SubSeq(str, 2, Len(str) - 1) ELSE str
        IN
        /\ apa => str[1] = 40 /\ str[Len(str)] = 41 /\ Parens(str) = 2
        /\ ~apa => Parens(str) = 0
        /\ verIn.tag = "SemVer" => inner = <<118>> \o Dotted(verIn.sem)
        /\ verIn.tag \in {"Edition", "DigitalEdition"} =>
                IsPrefix(Itoa(verIn.number) \o OrdinalSuffix(verIn.number) \o <<32>>, inner)

C18_Witness ==
    /\ verOut # None
    /\ verOut.val.style = "apa"
    /\ verIn = Edition(11)
    /\ verOut.val.str = <<40, 49, 49, 116, 104, 32, 101, 100, 46, 41>>

----------------------------------------------------------------------------
(* Properties of the Book renderings, checked under SpecBook *)

\* a Book with a non-empty list of persons, a publish date, no chapter and
\* no version
PlainDatedBook ==
    /\ bookIn.author.tag = "Persons"
    /\ Len(bookIn.author.persons) > 0
    /\ bookIn.published # None
    /\ bookIn.chapter = None
    /\ bookIn.version = None

\* the APA rendering has been called
ApaCall ==
    bookOut # None /\ bookOut.val.fn \in {"format_apa", "ApaFormatting::citation_string"}

\* the IEEE rendering has been called
IeeeCall ==
    bookOut # None /\ bookOut.val.fn \in {"format_ieee", "IeeeFormatting::citation_string"}

\* the book of J Smith alone, and of J Smith, Humberto Fuentes and Isabel Popov
OneAuthor == bookIn.author.tag = "Persons" /\ Len(bookIn.author.persons) = 1

ThreeAuthors == bookIn.author.tag = "Persons" /\ Len(bookIn.author.persons) = 3

\* "Smith, J. (2023). A Great Paper."
ApaOneAuthor ==
    <<83, 109, 105, 116, 104, 44, 32, 74, 46, 32, 40, 50, 48, 50, 51, 41,
      46, 32, 65, 32, 71, 114, 101, 97, 116, 32, 80, 97, 112, 101, 114, 46>>

\* "Smith, J. et al. (2023). A Great Paper."
ApaThreeAuthors ==
    <<83, 109, 105, 116, 104, 44, 32, 74, 46, 32, 101, 116, 32, 97, 108,
      46, 32, 40, 50, 48, 50, 51, 41, 46, 32, 65, 32, 71, 114, 101, 97,
      116, 32, 80, 97, 112, 101, 114, 46>>

\* C19: for a Book with a non-empty person author list, a publish date and
\* no chapter or version, format_apa is "<APA author list> (<year>). <title>."
\* with only the year of the date; one author gives
\* "Smith, J. (2023). A Great Paper." and three authors give
\* "Smith, J. et al. (2023). A Great Paper.".
C19_BookApa ==
    (ApaCall /\ PlainDatedBook) =>
        /\ bookOut.val.out =
               Return(GenericAuthor_as_apa_string(bookIn.author).val
                      \o <<32, 40>> \o Itoa(bookIn.published.val.year) \o <<41, 46, 32>>
                      \o bookIn.title \o <<46>>)
        /\ OneAuthor => bookOut.val.out = Return(ApaOneAuthor)
        /\ ThreeAuthors => bookOut.val.out = Return(ApaThreeAuthors)

C19_Witness ==
    /\ ApaCall
    /\ PlainDatedBook
    /\ ThreeAuthors
    /\ bookOut.val.fn = "format_apa"
    /\ bookIn.published = Some(YearMonthDay(2023, 1, 1))
    /\ bookOut.val.out = Return(ApaThreeAuthors)

\* the date of the IEEE rendering: "<year>", "<AbbrevMonth>, <year>" or
\* "<AbbrevMonth> <day>, <year>"
IeeeDate(d) ==
    IF d.tag = "Year" THEN Itoa(d.year)
    ELSE IF d.tag = "YearMonth" THEN AbbrevMonth(d.month) \o <<44, 32>> \o Itoa(d.year)
    ELSE AbbrevMonth(d.month) \o <<32>> \o Itoa(d.day) \o <<44, 32>> \o Itoa(d.year)

\* "J. Smith, A Great Paper. 2023."
IeeeOneAuthor ==
    <<74, 46, 32, 83, 109, 105, 116, 104, 44, 32, 65, 32, 71, 114, 101, 97,
      116, 32, 80, 97, 112, 101, 114, 46, 32, 50, 48, 50, 51, 46>>

\* "J. Smith, H. Fuentes, and I. Popov, A Great Paper. Jan. 1, 2023."
IeeeThreeAuthors ==
    <<74, 46, 32, 83, 109, 105, 116, 104, 44, 32, 72, 46, 32, 70, 117, 101,
      110, 116, 101, 115, 44, 32, 97, 110, 100, 32, 73, 46, 32, 80, 111,
      112, 111, 118, 44, 32, 65, 32, 71, 114, 101, 97, 116, 32, 80, 97,
      112, 101, 114, 46, 32, 74, 97, 110, 46, 32, 49, 44, 32, 50, 48, 50,
      51, 46>>

\* C20: for a Book with a non-empty person author list, a publish date and
\* no chapter or version, format_ieee is "<IEEE author list>, <title>. <date>."
\* with the date rendered by its precision; one author gives
\* "J. Smith, A Great Paper. 2023." and three authors with 2023-01-01 give
\* "J. Smith, H. Fuentes, and I. Popov, A Great Paper. Jan. 1, 2023.".
C20_BookIeee ==
    (IeeeCall /\ PlainDatedBook) =>
        /\ bookOut.val.out =
               Return(GenericAuthor_as_ieee_string(bookIn.author).val
                      \o <<44, 32>> \o bookIn.title \o <<46, 32>>
                      \o IeeeDate(bookIn.published.val) \o <<46>>)
        /\ (OneAuthor /\ bookIn.published = Some(from_year(2023))) =>
               bookOut.val.out = Return(IeeeOneAuthor)
        /\ (ThreeAuthors /\ bookIn.published = Some(YearMonthDay(2023, 1, 1))) =>
               bookOut.val.out = Return(IeeeThreeAuthors)

----------------------------------------------------------------------------
(* Properties of the media renderings, checked under SpecMedia *)

\* a string holds "..", ",." or ",,"
Doubled(str) ==
    \E k \in 1..(Len(str) - 1) :
        <<str[k], str[k + 1]>> \in {<<46, 46>>, <<44, 46>>, <<44, 44>>}

\* the renderings of the formatting traits
TraitFns == {"IeeeFormatting::citation_string", "ApaFormatting::citation_string"}

\* C21: for every Book and OnlineManual, in both styles and for every
\* combination of present and absent optional fields, the formatted string
\* never contains doubled punctuation ("..", ",." or ",,"), the field values
\* holding no period and no comma themselves.
C21_NoDoubledPunctuation ==
    /\ (bookOut # None /\ bookOut.val.fn \in TraitFns /\ bookOut.val.out.tag = "Return")
            => ~Doubled(bookOut.val.out.val)
    /\ (manOut # None /\ manOut.val.fn \in TraitFns /\ manOut.val.out.tag = "Return")
            => ~Doubled(manOut.val.out.val)

\* C22: formatting a media kind or variant that has no rendering for the
\* requested style (the conference kinds in format_apa and format_ieee,
\* OnlineVideo::Generic, an OnlineManual available by DOI or library database
\* provider) returns a reported failure; it neither aborts nor returns a string.
C22_UnsupportedReported ==
    /\ confOut # None => confOut.val.out.tag = "Err"
    /\ (vidOut # None /\ vidOut.val.fn \in TraitFns /\ vidIn.variant = "Generic")
            => vidOut.val.out.tag = "Err"
    /\ (manOut # None /\ manOut.val.fn \in TraitFns
        /\ manIn.available_at.tag \in {"DOI", "LibraryDatabaseProvider"})
            => manOut.val.out.tag = "Err"

\* the access date in IEEE form: "<AbbrevMonth> <day>, <year>"
AccessedIeee(a) ==
    AbbrevMonth(a.month) \o <<32>> \o Itoa(a.day) \o <<44, 32>> \o Itoa(a.year)

\* a rendering of an OnlineManual that the code defines
ManualIeeeCall ==
    /\ manOut # None
    /\ manOut.val.fn = "IeeeFormatting::citation_string"
    /\ manIn.available_at.tag \in {"NotAvailable", "URL"}

\* C24: the IEEE rendering of an OnlineManual is the space-joined parts
\* "<IEEE author list>." (omitted for an empty list), "<title> <IEEE version>."
\* or "<title>.", "(<publish date in IEEE form>)." (omitted without date),
\* "Accessed: <AbbrevMonth> <day>, <year>. [Online]." and "Available: <url>"
\* (only for URL availability).
C24_ManualIeee ==
    ManualIeeeCall =>
        manOut.val.out =
            Return(Join(
                (IF manIn.author.tag = "Persons" /\ Len(manIn.author.persons) = 0
                 THEN <<>>
                 ELSE <<GenericAuthor_as_ieee_string(manIn.author).val \o <<46>> >>)
                \o (IF manIn.version = None THEN <<manIn.title \o <<46>> >>
                    ELSE <<manIn.title \o <<32>>
                           \o GenericMediaVersion_as_ieee_string(manIn.version.val)
                           \o <<46>> >>)
                \o (IF manIn.published = None THEN <<>>
                    ELSE << <<40>> \o IeeeDate(manIn.published.val) \o <<41, 46>> >>)
                \o <<ACCESSED_ \o AccessedIeee(manIn.accessed) \o ONLINE_>>
                \o (IF manIn.available_at.tag = "URL"
                    THEN <<AVAILABLE_ \o manIn.available_at.val>>
                    ELSE <<>>),
                <<32>>))

\* the publish date in APA form: "<year>", "<year>, <MonthFullName>" or
\* "<year>, <MonthFullName> <day>"
ApaDate(d) ==
    IF d.tag = "Year" THEN Itoa(d.year)
    ELSE IF d.tag = "YearMonth" THEN Itoa(d.year) \o <<44, 32>> \o MonthName(d.month)
    ELSE Itoa(d.year) \o <<44, 32>> \o MonthName(d.month) \o <<32>> \o Itoa(d.day)

\* a rendering of an OnlineVideo::YouTube
YouTubeCall(fn) == vidOut # None /\ vidOut.val.fn = fn /\ vidIn.variant = "YouTube"

\* "(<date>). " for a present date, nothing for an absent one
DatePart(published, str) ==
    IF published = None THEN <<>> ELSE <<40>> \o str \o <<41, 46, 32>>

\* C25: for an OnlineVideo::YouTube the IEEE rendering is "<channel>. <title>.
\* (<IEEE publish date>). Accessed: <AbbrevMonth> <day>, <year>. [Online Video].
\* Available: <url>" and the APA rendering is "<channel>. (<APA publish date>).
\* <title> [Video]. YouTube. Retrieved <MonthFullName> <day>, <year>, from
\* <url>"; the date part is omitted without publish date; without url the
\* IEEE output ends after "[Online Video]." and the APA output with
\* "Retrieved <MonthFullName> <day>, <year>.".
C25_YouTube ==
    /\ YouTubeCall("IeeeFormatting::citation_string") =>
           vidOut.val.out =
               Return(vidIn.channel \o <<46, 32>> \o vidIn.title \o <<46, 32>>
                      \o DatePart(vidIn.published,
                                  IF vidIn.published = None THEN <<>>
                                  ELSE IeeeDate(vidIn.published.val))
                      \o ACCESSED_ \o AccessedIeee(vidIn.accessed) \o ONLINE_VIDEO_
                      \o (IF vidIn.url = None THEN <<>>
                          ELSE <<32>> \o AVAILABLE_ \o vidIn.url.val))
    /\ YouTubeCall("ApaFormatting::citation_string") =>
           vidOut.val.out =
               Return(vidIn.channel \o <<46, 32>>
                      \o DatePart(vidIn.published,
                                  IF vidIn.published = None THEN <<>>
                                  ELSE ApaDate(vidIn.published.val))
                      \o vidIn.title \o VIDEO_YOUTUBE_ \o <<32>>
                      \o RETRIEVED_ \o MonthName(vidIn.accessed.month) \o <<32>>
                      \o Itoa(vidIn.accessed.day) \o <<44, 32>> \o Itoa(vidIn.accessed.year)
                      \o (IF vidIn.url = None THEN <<46>>
                          ELSE FROM_ \o vidIn.url.val))

\* "scorpiopede. Tribute. (Apr. 4, 2009). Accessed: Oct. 1, 2025. [Online Video]. Available: https://y/v"
YouTubeIeeeExample ==
    <<115, 99, 111, 114, 112, 105, 111, 112, 101, 100, 101, 46, 32, 84,
      114, 105, 98, 117, 116, 101, 46, 32, 40, 65, 112, 114, 46, 32, 52,
      44, 32, 50, 48, 48, 57, 41, 46, 32, 65, 99, 99, 101, 115, 115, 101,
      100, 58, 32, 79, 99, 116, 46, 32, 49, 44, 32, 50, 48, 50, 53, 46, 32,
      91, 79, 110, 108, 105, 110, 101, 32, 86, 105, 100, 101, 111, 93, 46,
      32, 65, 118, 97, 105, 108, 97, 98, 108, 101, 58, 32, 104, 116, 116,
      112, 115, 58, 47, 47, 121, 47, 118>>

C25_Witness ==
    /\ YouTubeCall("IeeeFormatting::citation_string")
    /\ vidIn.published = Some(YearMonthDay(2009, 4, 4))
    /\ vidIn.accessed = AccessDateFrom(2025, 10, 1)
    /\ vidIn.url # None
    /\ vidOut.val.out = Return(YouTubeIeeeExample)

----------------------------------------------------------------------------
(* Properties of the values the constructors build, checked under SpecBuilt *)

\* a Book published on the date d
BookPublished(d) ==
    [id |-> <<97>>, published |-> Some(d),
     author |-> [tag |-> "Persons", persons |-> <<>>], title |-> A_GREAT_PAPER,
     chapter |-> None, version |-> None, doi |-> None, pages |-> None]

\* C23: the panic branches of rendering are unreachable from values built by
\* the public constructors: a PublishDate from from_year, from_year_month or
\* from_year_month_day has a day only when it has a month, so the IEEE
\* rendering of a Book never panics on it; the as_ieee_string and
\* as_apa_string of a PersonName from from_first_middle_last neither panic
\* nor fall back to the bare surname.
C23_PanicsUnreachable ==
    /\ (dateOut # None /\ dateOut.val.ret.tag = "Ok") =>
           LET d == dateOut.val.ret.val
           IN  /\ day_of(d) # None => month_of(d) # None
               /\ Book_ieee_citation_string(BookPublished(d)) # Panic
    /\ (nameStr # None /\ nameOut.val.ctor = "from_first_middle_last") =>
           /\ nameStr.val.out # Panic
           /\ nameStr.val.out # Return(nameIn.last)

C23_Witness ==
    /\ nameStr # None
    /\ nameOut.val.ctor = "from_first_middle_last"
    /\ nameIn.middle = <<769>>
    /\ nameStr.val.style = "apa"
    /\ nameStr.val.out.tag = "Return"

----------------------------------------------------------------------------
(* Properties of the AcademicAuthor renderings, checked under SpecAuthor *)

\* a call on an AcademicAuthor that is one person or an organization
AcademicSingleCall ==
    /\ authorOut # None
    /\ authorOut.val.type = "AcademicAuthor"
    /\ authorIn.tag = "Persons" => Len(authorIn.persons) = 1

\* the name of the one person in the style of the call, or of the organization
SingleName ==
    IF authorIn.tag = "Organization" THEN authorIn.name
    ELSE StyleName(authorIn.persons[1])

\* str ends with exactly one comma
OneTrailingComma(str) ==
    /\ Len(str) >= 2
    /\ str[Len(str)] = 44
    /\ str[Len(str) - 1] # 44

\* C26: for an AcademicAuthor that is one person, of any of the three name
\* forms, or an organization, as_ieee_string is the IEEE name (or the
\* organization name) followed by exactly one trailing comma, and
\* as_apa_string is the APA name (or the organization name) with nothing
\* appended.
C26_AcademicSingle ==
    AcademicSingleCall =>
        IF authorOut.val.style = "ieee"
        THEN /\ authorOut.val.out = Return(Some(SingleName \o <<44>>))
             /\ OneTrailingComma(authorOut.val.out.val.val)
        ELSE authorOut.val.out = Return(Some(SingleName))

\* "J. D. Doe,"
C26_Witness ==
    /\ AcademicSingleCall
    /\ authorOut.val.style = "ieee"
    /\ authorIn.tag = "Persons"
    /\ authorIn.persons[1].tag = "SurnameAndFirstNameAndMiddleName"
    /\ authorOut.val.out = Return(Some(<<74, 46, 32, 68, 46, 32, 68, 111, 101, 44>>))

----------------------------------------------------------------------------
(* Properties of the Book renderings, checked under SpecBook *)

\* Book's own IEEE rendering has returned for a book with a chapter
ChapterIeeeCall ==
    /\ bookOut # None
    /\ bookOut.val.fn = "IeeeFormatting::citation_string"
    /\ bookIn.chapter # None

\* the chapter in typographic quotation marks, "in" and the title, the
\* version after a comma when there is one, and the final period
ChapterTitlePart ==
    <<8220>> \o bookIn.chapter.val \o <<44, 8221>> \o <<32, 105, 110, 32>> \o bookIn.title
    \o (IF bookIn.version = None THEN <<>>
        ELSE <<44, 32>> \o GenericMediaVersion_as_ieee_string(bookIn.version.val))
    \o <<46>>

\* the author list, none when there is no author
AuthorListBefore ==
    IF GenericAuthor_as_ieee_string(bookIn.author) = None THEN <<>>
    ELSE GenericAuthor_as_ieee_string(bookIn.author).val \o <<32>>

\* the date, none when there is no date
DateAfter ==
    IF bookIn.published = None THEN <<>>
    ELSE <<32>> \o IeeeDate(bookIn.published.val) \o <<46>>

\* C27: for a Book that has a chapter, the IEEE rendering wraps the chapter
\* in typographic left and right quotation marks and follows it with "in" and
\* the book title: the title part is LQ chapter "," RQ " in " title "." with
\* ", " and the IEEE version before the final period when a version is
\* present, and this part sits between the author list and the date.
C27_ChapterInTitle ==
    ChapterIeeeCall =>
        bookOut.val.out = Return(AuthorListBefore \o ChapterTitlePart \o DateAfter)

\* "J. Smith (LQ)Intro,(RQ) in A Great Paper, v1.0. 2023."
ChapterExample ==
    <<74, 46, 32, 83, 109, 105, 116, 104, 32, 8220, 73, 110, 116, 114, 111,
      44, 8221, 32, 105, 110, 32, 65, 32, 71, 114, 101, 97, 116, 32, 80,
      97, 112, 101, 114, 44, 32, 118, 49, 46, 48, 46, 32, 50, 48, 50, 51,
      46>>

C27_Witness ==
    /\ ChapterIeeeCall
    /\ bookIn.version # None
    /\ bookOut.val.out = Return(ChapterExample)

\* sub occurs in str
Contains(str, sub) ==
    \E k \in 0..(Len(str) - Len(sub)) :
        \A i \in 1..Len(sub) : str[k + i] = sub[i]

\* C28: for a Book that has a DOI or a page range, the APA and the IEEE
\* rendering end with a trailer that contains the DOI and the pages; the
\* rendering of a Book with a DOI holds the DOI, that of a Book with pages
\* holds the number of its last page.
C28_DoiPagesTrailer ==
    (bookOut # None /\ bookOut.val.out.tag = "Return") =>
        /\ bookIn.doi # None => Contains(bookOut.val.out.val, bookIn.doi.val)
        /\ bookIn.pages # None =>
               Contains(bookOut.val.out.val, Itoa(bookIn.pages.val.end))

----------------------------------------------------------------------------
(* Properties of the validation and of the order by author, checked under Spec *)

\* a citation with an empty id, an empty title or no author
HasEmptyField(c) == c.id = EmptyStr \/ c.title = EmptyStr \/ c.authors = <<>>

\* the first empty field of such a citation: id, then title, then authors
FirstEmptyField(c) ==
    IF c.id = EmptyStr THEN "id"
    ELSE IF c.title = EmptyStr THEN "title"
    ELSE "authors"

\* C29: add_citation validates before it checks for duplicates: a citation
\* whose id, title or author list is empty is rejected with MissingField
\* naming the first empty field (id, then title, then authors), also when its
\* id is held already, and the bibliography is left unchanged; a citation
\* with all three non-empty is not rejected with MissingField.
C29_ValidatedBeforeDuplicates ==
    op = "add_citation" =>
        /\ HasEmptyField(arg.val) =>
               /\ result = Err([kind |-> "MissingField",
                                field |-> FirstEmptyField(arg.val)])
               /\ citations = prev
        /\ ~HasEmptyField(arg.val) =>
               result \in {Ok(Unit), DuplicateFailure(arg.val.id)}

C29_Witness ==
    /\ op = "add_citation"
    /\ arg.val.id \in HeldIds(prev)
    /\ arg.val.title = EmptyStr
    /\ arg.val.authors = <<>>
    /\ result = Err([kind |-> "MissingField", field |-> "title"])
    /\ citations = prev

\* the last name of an author written "First Last": the last word
LastName(author) ==
    LET spaces == {i \in 1..Len(author) : author[i] = 32}
        p == IF spaces = {} THEN 0
             ELSE CHOOSE i \in spaces : \A j \in spaces : j <= i
    IN  SubSeq(author, p + 1, Len(author))

\* the last name of the first author, empty for a citation without authors
LastNameKey(c) == IF c.authors = <<>> THEN EmptyStr ELSE LastName(c.authors[1])

\* C30: sort_by_author leaves a permutation of the previous citations in
\* ascending order of the first author's last name, citations of equal key
\* keep the relative order they had, and citations without authors, whose
\* key is empty, come first.
C30_SortByLastName ==
    op = "sort_by_author" =>
        /\ IsPermutation(prev, citations)
        /\ \A i \in 1..(Len(citations) - 1) :
               StrCmp(LastNameKey(citations[i]), LastNameKey(citations[i + 1])) # "Greater"
        /\ \A i, j \in 1..Len(prev) :
               (i < j /\ LastNameKey(prev[i]) = LastNameKey(prev[j])) =>
                   \E k, l \in 1..Len(citations) :
                       k < l /\ citations[k] = prev[i] /\ citations[l] = prev[j]

====
